---------------------------- MODULE Spec2Model ----------------------------
(*************************************************************************)
(* Model of live-serial: serial-port readers (liveserial/monitor.py),    *)
(* sensor descriptors (monitor.py and config.py), the format inferrer,   *)
(* the live data feed and the aggregating CSV logger (liveserial/log.py).*)
(*                                                                       *)
(* Python values are represented as follows.                             *)
(*   - a raw field read from the wire is a string of Tokens;             *)
(*   - a cast value is a record [type, val]: int("12") is                *)
(*     [type |-> "int", val |-> 12], float("3.5") is                     *)
(*     [type |-> "float", val |-> 35] (val in tenths);                   *)
(*   - None, where it is compared with strings, is the string "None";    *)
(*   - a call's outcome is a record with the field exc naming the        *)
(*     exception that left the call ("none" when it returned).           *)
(*************************************************************************)
EXTENDS Integers, Sequences, FiniteSets, TLC

None == "None"

\* ------------------------------------------------------------------
\* Bounds of the model
\* ------------------------------------------------------------------
\* longest raw line (number of split fields) and longest dtype list
MaxFields == 3

\* ------------------------------------------------------------------
\* Raw text and Python's int() / float()
\* ------------------------------------------------------------------
\* the texts a split line is made of: two key texts, an integer text
\* and a decimal text
Tokens == {"W", "K", "12", "3.5"}

\* int(text) succeeds exactly on integer literals
IsIntText(s) == s \in {"12", "13"}

\* float(text) succeeds on integer and on decimal literals
IsFloatText(s) == s \in {"12", "13", "3.5", "1.5"}

IntOf(s) == CASE s = "12" -> 12 [] s = "13" -> 13 [] OTHER -> 0

\* value of float(text), in tenths
TenthsOf(s) ==
    CASE s = "12" -> 120 [] s = "13" -> 130
      [] s = "3.5" -> 35 [] s = "1.5" -> 15 [] OTHER -> 0

\* caster(text) for caster in {int, float}: the value, or ValueError
Caster(type, s) ==
    IF type = "int"
    THEN IF IsIntText(s)
         THEN [exc |-> "none", v |-> [type |-> "int", val |-> IntOf(s)]]
         ELSE [exc |-> "ValueError", v |-> [type |-> "int", val |-> 0]]
    ELSE IF IsFloatText(s)
         THEN [exc |-> "none", v |-> [type |-> "float", val |-> TenthsOf(s)]]
         ELSE [exc |-> "ValueError", v |-> [type |-> "float", val |-> 0]]

\* all sequences over S of length 0..n
SeqsUpTo(S, n) == UNION {[1..k -> S] : k \in 0..n}


\* ------------------------------------------------------------------
\* State
\* ------------------------------------------------------------------
VARIABLES
    \* -- Sensor descriptors
    sensor,     \* a constructed Sensor descriptor (its attributes)
    raw,        \* the split line handed to Sensor.parse
    parsed,     \* outcome of the parse calls made on (sensor, raw)
    \* -- FormatInferrer
    inferrer,   \* the FormatInferrer's attributes
    fed,        \* the lines passed to FormatInferrer.parse so far
    rets,       \* what each of those calls returned
    \* -- ComMonitorThread (one port reader)
    com,        \* the thread's attributes and where its run() stands
    data_q,     \* its data queue
    error_q,    \* its error queue
    \* -- LiveDataFeed
    feed,       \* cur_data and has_new_data
    reads,      \* per sensor: what read_data returned since the last add_data
    \* -- Logger
    logger,     \* the Logger's attributes
    dataqs,     \* the queues the Logger drains, in the order of Logger.dataqs
    cfgsensors, \* config._sensors: the configured Sensor instances by name
    files,      \* the log directory: file name (sensor) -> lines written
    now,        \* wall clock, in ticks of the model
    calls,      \* outcomes of the Logger calls made by its callers, and
                \* the condition of the disk that their writes meet
    pc,         \* where the timer thread stands in _read_serial, and the
                \* items it has drained
    \* -- livemon.run
    run         \* the arguments of a monitoring session and how far
                \* livemon.run has come

sensorVars == <<sensor, raw, parsed>>
inferVars == <<inferrer, fed, rets>>
comVars == <<com, data_q, error_q>>
feedVars == <<feed, reads>>
logVars == <<logger, dataqs, cfgsensors, files, now, calls, pc>>
runVars == <<run>>

vars == <<sensor, raw, parsed, inferrer, fed, rets, com, data_q, error_q,
          feed, reads, logger, dataqs, cfgsensors, files, now, calls, pc,
          run>>

\* ------------------------------------------------------------------
\* Sensor descriptor: monitor.Sensor and config.Sensor
\* ------------------------------------------------------------------
DTypeNames == {"key", "int", "float"}

\* index (1-based) of the last "key" entry of a dtype list, 0 if none:
\* the constructor's loop overwrites _keyloc at every "key" entry
RECURSIVE LastKey(_, _)
LastKey(dtype, i) ==
    IF i = 0 THEN 0
    ELSE IF dtype[i] = "key" THEN i ELSE LastKey(dtype, i - 1)

\* the casters appended to self.dtype: every entry that is not "key"
RECURSIVE Casters(_)
Casters(dtype) ==
    IF dtype = <<>> THEN <<>>
    ELSE IF Head(dtype) = "key" THEN Casters(Tail(dtype))
         ELSE <<Head(dtype)>> \o Casters(Tail(dtype))

\* the attributes both constructors set: _keyloc is kept as the 0-based
\* Python index, None (-1) when the dtype list holds no "key"
SensorAttrs(key, value_index, dtype, port) ==
    LET kl == LastKey(dtype, Len(dtype)) IN
    [key         |-> key,
     dtype       |-> Casters(dtype),
     keyloc      |-> IF kl = 0 THEN -1 ELSE kl - 1,
     value_index |-> value_index,
     port        |-> port]

\* monitor.Sensor.__init__: ValueError when the dtype list holds "key"
\* and no key value is given
Sensor_init(key, value_index, dtype, port) ==
    IF LastKey(dtype, Len(dtype)) > 0 /\ key = None
    THEN [exc |-> "ValueError", self |-> [key |-> key]]
    ELSE [exc |-> "none", self |-> SensorAttrs(key, value_index, dtype, port)]

\* config.Sensor.__init__: the same, relaxed for port "aggregate"
CfgSensor_init(key, value_index, dtype, port) ==
    IF LastKey(dtype, Len(dtype)) > 0 /\ key = None /\ port # "aggregate"
    THEN [exc |-> "ValueError", self |-> [key |-> key]]
    ELSE [exc |-> "none", self |-> SensorAttrs(key, value_index, dtype, port)]

\* outcome of a parse: the list returned (none = TRUE for Python's None)
\* or the exception raised
Ret(vals) == [exc |-> "none", none |-> FALSE, vals |-> vals]
RetNone == [exc |-> "none", none |-> TRUE, vals |-> <<>>]
Raise(e) == [exc |-> e, none |-> TRUE, vals |-> <<>>]

\* the loop of _cast over enumerate(raw), from 0-based index iv, with the
\* values cast so far: the cast list, or the first ValueError
RECURSIVE CastLoop(_, _, _, _)
CastLoop(self, r, iv, vals) ==
    IF iv >= Len(r) THEN Ret(vals)
    ELSE IF iv = self.keyloc THEN CastLoop(self, r, iv + 1, vals)
    ELSE LET c == Caster(self.dtype[Len(vals) + 1], r[iv + 1]) IN
         IF c.exc # "none" THEN Raise(c.exc)
         ELSE CastLoop(self, r, iv + 1, Append(vals, c.v))

\* [val for i, val in enumerate(vals) if i != value_index], from 0-based i
RECURSIVE AllBut(_, _, _)
AllBut(vals, skip, i) ==
    IF i >= Len(vals) THEN <<>>
    ELSE IF i = skip THEN AllBut(vals, skip, i + 1)
         ELSE <<vals[i + 1]>> \o AllBut(vals, skip, i + 1)

\* monitor.Sensor._cast: casts, then moves the plotted value to the front
Sensor_cast(self, r) ==
    IF Len(r) # Len(self.dtype) + (IF self.keyloc >= 0 THEN 1 ELSE 0)
    THEN RetNone
    ELSE LET c == CastLoop(self, r, 0, <<>>) IN
         IF c.exc = "ValueError" THEN RetNone
         ELSE IF self.value_index > 0
         THEN LET fi == IF self.keyloc >= 0 /\ self.keyloc < self.value_index
                        THEN self.value_index - 1
                        ELSE self.value_index
              IN IF fi >= Len(c.vals) THEN Raise("IndexError")
                 ELSE Ret(<<c.vals[fi + 1]>>
                          \o AllBut(c.vals, self.value_index, 0))
         ELSE Ret(c.vals)

\* parse casting every line when the dtype list holds no "key"
Sensor_parse_any_key(self, r) ==
    IF self.keyloc >= 0
    THEN IF self.keyloc >= Len(r) THEN Raise("IndexError")
         ELSE IF r[self.keyloc + 1] = self.key THEN Sensor_cast(self, r)
         ELSE RetNone
    ELSE Sensor_cast(self, r)

\* monitor.Sensor.parse
Sensor_parse(self, r) ==
    IF self.keyloc >= 0
    THEN IF self.keyloc >= Len(r) THEN Raise("IndexError")
         ELSE IF r[self.keyloc + 1] = self.key THEN Sensor_cast(self, r)
         ELSE RetNone
    ELSE IF self.key = None THEN Sensor_cast(self, r)
    ELSE RetNone

\* config.Sensor._cast: casts and returns the values in wire order
CfgSensor_cast(self, r) ==
    IF Len(r) # Len(self.dtype) + (IF self.keyloc >= 0 THEN 1 ELSE 0)
    THEN RetNone
    ELSE LET c == CastLoop(self, r, 0, <<>>) IN
         IF c.exc = "ValueError" THEN RetNone ELSE Ret(c.vals)

\* config.Sensor.parse
CfgSensor_parse(self, r) ==
    IF self.keyloc >= 0
    THEN IF self.keyloc >= Len(r) THEN Raise("IndexError")
         ELSE IF r[self.keyloc + 1] = self.key THEN CfgSensor_cast(self, r)
         ELSE RetNone
    ELSE IF self.key = None THEN CfgSensor_cast(self, r)
    ELSE RetNone

\* ------------------------------------------------------------------
\* FormatInferrer (monitor.py)
\* ------------------------------------------------------------------
\* a Python dict as a function; d[k] = v
DictSet(d, k, v) == [x \in DOMAIN d \cup {k} |-> IF x = k THEN v ELSE d[x]]

EmptyDict == [x \in {} |-> 0]

\* FormatInferrer.__init__; order is the insertion order of _infer_keys,
\* the order in which its items() are iterated; an index of -1 is None
FormatInferrer_init(infer_limit) ==
    [infer_limit |-> infer_limit,
     infer_count |-> 0,
     infer_keys  |-> EmptyDict,
     order       |-> <<>>,
     inferred    |-> EmptyDict]

\* the loop of _infer_structure over enumerate(raw), from 0-based index i:
\* int, then float, else the field is taken as the key
RECURSIVE InferLoop(_, _, _, _)
InferLoop(r, i, dtype, key) ==
    IF i >= Len(r) THEN [dtype |-> dtype, key |-> key]
    ELSE IF IsIntText(r[i + 1])
         THEN InferLoop(r, i + 1, Append(dtype, "int"), key)
    ELSE IF IsFloatText(r[i + 1])
         THEN InferLoop(r, i + 1, Append(dtype, "float"), key)
    ELSE InferLoop(r, i + 1, dtype, i)

\* _infer_structure that keeps the vector a key already has
infer_structure_first_wins(self, r) ==
    LET st == InferLoop(r, 0, <<>>, -1)
        snsr == IF st.key >= 0 THEN r[st.key + 1] ELSE None
    IN [self EXCEPT
          !.infer_keys = DictSet(self.infer_keys, snsr, st.key),
          !.order = IF snsr \in DOMAIN self.infer_keys
                    THEN self.order ELSE Append(self.order, snsr),
          !.inferred = IF snsr \in DOMAIN self.inferred THEN self.inferred
                       ELSE DictSet(self.inferred, snsr, st.dtype)]

\* FormatInferrer._infer_structure
infer_structure(self, r) ==
    LET st == InferLoop(r, 0, <<>>, -1)
        snsr == IF st.key >= 0 THEN r[st.key + 1] ELSE None
    IN [self EXCEPT
          !.infer_keys = DictSet(self.infer_keys, snsr, st.key),
          !.order = IF snsr \in DOMAIN self.infer_keys
                    THEN self.order ELSE Append(self.order, snsr),
          !.inferred = DictSet(self.inferred, snsr, st.dtype)]

\* outcome of FormatInferrer.parse: the pair (vals, key), or an exception
PRet(vals, key) == [exc |-> "none", none |-> FALSE, vals |-> vals, key |-> key]
PNone(key) == [exc |-> "none", none |-> TRUE, vals |-> <<>>, key |-> key]
PRaise(e) == [exc |-> e, none |-> TRUE, vals |-> <<>>, key |-> None]

\* the cast loop for a matched key k found at index v, from 0-based i
RECURSIVE KeyedLoop(_, _, _, _, _)
KeyedLoop(types, r, v, i, result) ==
    IF i >= Len(r) THEN Ret(result)
    ELSE IF i = v THEN KeyedLoop(types, r, v, i + 1, result)
    ELSE IF Len(result) >= Len(types) THEN Raise("IndexError")
    ELSE LET c == Caster(types[Len(result) + 1], r[i + 1]) IN
         IF c.exc # "none" THEN Raise(c.exc)
         ELSE KeyedLoop(types, r, v, i + 1, Append(result, c.v))

\* [t(r) for t, r in zip(types, raw)], from 1-based position j
RECURSIVE ZipLoop(_, _, _, _)
ZipLoop(types, r, j, result) ==
    IF j > Len(types) \/ j > Len(r) THEN Ret(result)
    ELSE LET c == Caster(types[j], r[j]) IN
         IF c.exc # "none" THEN Raise(c.exc)
         ELSE ZipLoop(types, r, j + 1, Append(result, c.v))

\* the for-else of parse over _infer_keys.items(), from position n of order
RECURSIVE FrozenLoop(_, _, _)
FrozenLoop(self, r, n) ==
    IF n > Len(self.order)
    THEN IF None \notin DOMAIN self.inferred THEN PRaise("KeyError")
         ELSE LET z == ZipLoop(self.inferred[None], r, 1, <<>>) IN
              IF z.exc = "ValueError" THEN PNone(None)
              ELSE PRet(z.vals, None)
    ELSE LET k == self.order[n]
             v == self.infer_keys[k]
         IN IF v < 0 THEN FrozenLoop(self, r, n + 1)
            ELSE IF v >= Len(r) THEN PRaise("IndexError")
            ELSE IF r[v + 1] = k
                 THEN LET c == KeyedLoop(self.inferred[k], r, v, 0, <<>>) IN
                      IF c.exc = "ValueError" THEN PNone(None)
                      ELSE IF c.exc # "none" THEN PRaise(c.exc)
                      ELSE IF Len(c.vals) = Len(self.inferred[k])
                           THEN PRet(c.vals, k)
                           ELSE PNone(k)
            ELSE FrozenLoop(self, r, n + 1)

\* Learning with the limit tested one call too late
Learning_le(self) == self.infer_count <= self.infer_limit

\* the test of parse that decides between learning and parsing
Learning(self) == self.infer_count < self.infer_limit

\* parse that goes on learning once the limit is reached
FormatInferrer_parse_relearn(self, r) ==
    IF Learning(self)
    THEN [self |-> [infer_structure(self, r) EXCEPT
                       !.infer_count = self.infer_count + 1],
          ret  |-> PNone(None)]
    ELSE [self |-> infer_structure(self, r), ret |-> FrozenLoop(self, r, 1)]

\* FormatInferrer.parse: the inferrer after the call and what it returned
FormatInferrer_parse(self, r) ==
    IF Learning(self)
    THEN [self |-> [infer_structure(self, r) EXCEPT
                       !.infer_count = self.infer_count + 1],
          ret  |-> PNone(None)]
    ELSE [self |-> self, ret |-> FrozenLoop(self, r, 1)]

\* ------------------------------------------------------------------
\* LiveDataFeed (monitor.py)
\* ------------------------------------------------------------------
LiveDataFeed_init == [cur_data |-> EmptyDict, has_new_data |-> EmptyDict]

\* LiveDataFeed.add_data
add_data(self, snsr, data) ==
    [cur_data     |-> DictSet(self.cur_data, snsr, data),
     has_new_data |-> DictSet(self.has_new_data, snsr, TRUE)]

\* add_data storing the flag before the value
add_data_flag_first(self, snsr, data, n) ==
    IF n = 1
    THEN [self EXCEPT !.has_new_data = DictSet(self.has_new_data, snsr, TRUE)]
    ELSE [self EXCEPT !.cur_data = DictSet(self.cur_data, snsr, data)]

\* the n-th of the two assignments of add_data, each of which is atomic
add_data_step(self, snsr, data, n) ==
    IF n = 1
    THEN [self EXCEPT !.cur_data = DictSet(self.cur_data, snsr, data)]
    ELSE [self EXCEPT !.has_new_data = DictSet(self.has_new_data, snsr, TRUE)]

\* read_data leaving the unread flag as it is where there is one
read_data_keeps_flag(self, snsr) ==
    LET f == IF snsr \in DOMAIN self.has_new_data THEN self
             ELSE [self EXCEPT !.has_new_data =
                                  DictSet(self.has_new_data, snsr, FALSE)]
    IN IF snsr \in DOMAIN self.cur_data
       THEN [self |-> f, exc |-> "none", data |-> self.cur_data[snsr]]
       ELSE [self |-> f, exc |-> "KeyError", data |-> <<>>]

\* LiveDataFeed.read_data: the feed after the call and the value returned;
\* cur_data[sensor] raises KeyError after the flag has been stored
read_data(self, snsr) ==
    LET f == [self EXCEPT
                !.has_new_data = DictSet(self.has_new_data, snsr, FALSE)]
    IN IF snsr \in DOMAIN self.cur_data
       THEN [self |-> f, exc |-> "none", data |-> self.cur_data[snsr]]
       ELSE [self |-> f, exc |-> "KeyError", data |-> <<>>]

\* ------------------------------------------------------------------
\* Numbers of the Logger
\* ------------------------------------------------------------------
\* most samples the data queues hold together
MaxQueue == 3

\* last instant of the wall clock
MaxTime == 5

\* the flush interval Logger.logfreq, in clock ticks
LogFreq == 2

RECURSIVE Fact(_)
Fact(n) == IF n <= 1 THEN 1 ELSE n * Fact(n - 1)

\* Numbers of a sample (timestamps and values) are kept in units of
\* 1/Scale, so that the mean of up to MaxQueue of them is exact
Scale == Fact(MaxQueue)
Fix(x) == x * Scale

RECURSIVE SumCol(_, _, _)
SumCol(q, j, i) == IF i = 0 THEN 0 ELSE q[i][j] + SumCol(q, j, i - 1)

\* numpy.mean(qdata, axis=0): the mean of every column of the bucket,
\* the timestamp column included
MeanAxis0(q) == [j \in 1..Len(q[1]) |-> SumCol(q, j, Len(q)) \div Len(q)]

\* Python's None where a sample (a non-empty tuple) is expected
NoSample == <<>>

\* ------------------------------------------------------------------
\* Sensor configuration read by the Logger (config.py)
\* ------------------------------------------------------------------
\* an optional list-valued option: None, or the list
Nothing == [some |-> FALSE, v |-> <<>>]
Some(x) == [some |-> TRUE, v |-> x]

\* position of the sensor named name in config._sensors, 0 if absent
RECURSIVE CfgIndex(_, _, _)
CfgIndex(cfg, name, i) ==
    IF i > Len(cfg) THEN 0
    ELSE IF cfg[i].name = name THEN i ELSE CfgIndex(cfg, name, i + 1)

\* config.sensors(config, port="aggregate"): the names, in dict order
RECURSIVE OnPort(_, _)
OnPort(cfg, port) ==
    IF cfg = <<>> THEN <<>>
    ELSE IF Head(cfg).port = port
         THEN <<Head(cfg).name>> \o OnPort(Tail(cfg), port)
         ELSE OnPort(Tail(cfg), port)

\* Logger.sensor_option(sensor, option) for the list-valued options:
\* the attribute of the configured Sensor, None when it is not configured
sensor_option(cfg, name, option) ==
    LET i == CfgIndex(cfg, name, 1) IN
    IF i = 0 THEN Nothing
    ELSE IF option = "logging" THEN cfg[i].logging ELSE cfg[i].columns

\* ------------------------------------------------------------------
\* Logger (log.py)
\* ------------------------------------------------------------------
\* the loop of __init__ that keeps each data queue once
RECURSIVE Unique(_, _)
Unique(qs, acc) ==
    IF qs = <<>> THEN acc
    ELSE IF \E i \in 1..Len(acc) : acc[i] = Head(qs)
         THEN Unique(Tail(qs), acc)
         ELSE Unique(Tail(qs), Append(acc, Head(qs)))

\* Logger._sensor_aggregates: the names that get an aggfun, and the
\* Sensor instance every aggfun reads when it is called: the closure
\* refers to the loop variable, which is left at the last item
RECURSIVE WithTransform(_, _)
WithTransform(cfg, names) ==
    IF names = <<>> THEN <<>>
    ELSE LET c == cfg[CfgIndex(cfg, Head(names), 1)] IN
         IF c.transform # None /\ c.sensors.some
         THEN <<Head(names)>> \o WithTransform(cfg, Tail(names))
         ELSE WithTransform(cfg, Tail(names))

sensor_aggregates(cfg) ==
    LET agg == OnPort(cfg, "aggregate") IN
    [names    |-> WithTransform(cfg, agg),
     instance |-> IF agg = <<>> THEN None ELSE agg[Len(agg)]]

\* Logger.__init__; lastsave = -1 is None, logdir is whether a log
\* directory is configured
Logger_init(qs, method, logdir, config, aggregate, cfg) ==
    [dataqs      |-> Unique(qs, <<>>),
     method      |-> method,
     logdir      |-> logdir,
     logfreq     |-> LogFreq,
     lastsave    |-> -1,
     csvdata     |-> EmptyDict,
     csvorder    |-> <<>>,
     timer       |-> "none",
     timer_calls |-> 0,
     cancel      |-> FALSE,
     config      |-> config,
     aggregate   |-> IF aggregate THEN sensor_aggregates(cfg)
                     ELSE [names |-> <<>>, instance |-> None]]

\* the generator that leaves every item on the queue
get_all_from_queue_peek(Q) == [items |-> Q, rest |-> Q]

\* get_all_from_queue(Q): Q.get_nowait() until Empty; every item of the
\* queue is yielded and taken off the queue (the generator ends at its
\* raise StopIteration, as on the interpreters the package was written
\* for)
get_all_from_queue(Q) == [items |-> Q, rest |-> <<>>]

\* the loop of _read_serial over Logger.dataqs: the items it meets, in
\* order, and the queues as it leaves them (dicts are iterated in
\* insertion order)
RECURSIVE DrainAll(_, _)
DrainAll(qids, qs) ==
    IF qids = <<>> THEN [items |-> <<>>, qs |-> qs]
    ELSE LET g == get_all_from_queue(qs[Head(qids)])
             r == DrainAll(Tail(qids), [qs EXCEPT ![Head(qids)] = g.rest])
         IN [items |-> g.items \o r.items, qs |-> r.qs]

\* the keys of sensedata in insertion order
RECURSIVE FirstSeen(_, _)
FirstSeen(items, acc) ==
    IF items = <<>> THEN acc
    ELSE IF \E i \in 1..Len(acc) : acc[i] = Head(items)[1]
         THEN FirstSeen(Tail(items), acc)
         ELSE FirstSeen(Tail(items), Append(acc, Head(items)[1]))

\* sensedata[sensor]: qdata[1:] of every drained item of the sensor
RECURSIVE Bucket(_, _)
Bucket(items, snsr) ==
    IF items = <<>> THEN <<>>
    ELSE IF Head(items)[1] = snsr
         THEN <<Tail(Head(items))>> \o Bucket(Tail(items), snsr)
         ELSE Bucket(Tail(items), snsr)

\* Aggregated with the first sample of the bucket taken for 'last'
Aggregated_first(method, q) ==
    IF method = "average" THEN MeanAxis0(q) ELSE q[1]

\* the representative sample of a bucket (ldata)
Aggregated(method, q) ==
    IF method = "average" THEN MeanAxis0(q) ELSE q[Len(q)]

\* csvdata[sensor].extend(items), creating the list when it is missing
CsvExtend(self, snsr, items) ==
    IF snsr \in DOMAIN self.csvdata
    THEN [self EXCEPT !.csvdata[snsr] = self.csvdata[snsr] \o items]
    ELSE [self EXCEPT !.csvdata = DictSet(self.csvdata, snsr, items),
                      !.csvorder = Append(self.csvorder, snsr)]

\* the transform functions of the configuration
RECURSIVE SumSeq(_)
SumSeq(q) == IF q = <<>> THEN 0 ELSE Head(q) + SumSeq(Tail(q))

RECURSIVE MaxSeq(_)
MaxSeq(q) ==
    IF Len(q) = 1 THEN q[1]
    ELSE LET m == MaxSeq(Tail(q)) IN IF q[1] > m THEN q[1] ELSE m

Transform(name, vals) ==
    IF name = "sum" THEN SumSeq(vals)
    ELSE IF name = "max" THEN MaxSeq(vals)
    ELSE vals[Len(vals)]

\* the first loop of aggfun: the value lists of the constituents that
\* are in aggdata (v) and the timestamp of the first of them (t)
RECURSIVE Gather(_, _, _)
Gather(names, aggdata, acc) ==
    IF names = <<>> THEN acc
    ELSE IF Head(names) \in DOMAIN aggdata
         THEN Gather(Tail(names), aggdata,
                     [v |-> Append(acc.v, Tail(aggdata[Head(names)])),
                      t |-> IF acc.t = NoSample
                            THEN <<aggdata[Head(names)][1]>> ELSE acc.t])
         ELSE Gather(Tail(names), aggdata, acc)

\* number of tuples zip(*v) yields
RECURSIVE MinLen(_)
MinLen(v) ==
    IF Len(v) = 1 THEN Len(v[1])
    ELSE LET m == MinLen(Tail(v)) IN
         IF Len(v[1]) < m THEN Len(v[1]) ELSE m

\* aggfun(aggdata) of the Sensor instance inst: None when no constituent
\* is in aggdata
aggfun(inst, aggdata) ==
    LET g == Gather(inst.sensors.v, aggdata, [v |-> <<>>, t |-> NoSample]) IN
    IF g.v = <<>> THEN NoSample
    ELSE g.t \o [j \in 1..MinLen(g.v) |->
                    Transform(inst.transform,
                              [c \in 1..Len(g.v) |-> g.v[c][j]])]

\* The methods below act on a record w of the objects they touch:
\* w.logger (the Logger), w.feed (its LiveDataFeed), w.cfg
\* (config._sensors), w.files (the log directory), w.aggdata (the local
\* dict of _read_serial) and w.exc, the exception that ended the call
\* ("none" when it returned).

\* ReadOne buffering the representative sample instead of the bucket
ReadOne_representative(w, snsr, qdata, ldata) ==
    [w EXCEPT
       !.feed = add_data(w.feed, snsr, ldata),
       !.logger = IF w.logger.logdir
                  THEN CsvExtend(w.logger, snsr, <<ldata>>)
                  ELSE w.logger,
       !.aggdata = IF w.logger.aggregate.names # <<>>
                   THEN DictSet(w.aggdata, snsr, ldata) ELSE w.aggdata]

\* ReadOne buffering the bucket whether or not a log directory is set
ReadOne_buffers_always(w, snsr, qdata, ldata) ==
    [w EXCEPT
       !.feed = add_data(w.feed, snsr, ldata),
       !.logger = CsvExtend(w.logger, snsr, qdata),
       !.aggdata = IF w.logger.aggregate.names # <<>>
                   THEN DictSet(w.aggdata, snsr, ldata) ELSE w.aggdata]

\* one iteration of the loop of _read_serial over sensedata.items():
\* publish the representative sample ldata, buffer the bucket qdata,
\* remember ldata in aggdata
ReadOne(w, snsr, qdata, ldata) ==
    [w EXCEPT
       !.feed = add_data(w.feed, snsr, ldata),
       !.logger = IF w.logger.logdir
                  THEN CsvExtend(w.logger, snsr, qdata)
                  ELSE w.logger,
       !.aggdata = IF w.logger.aggregate.names # <<>>
                   THEN DictSet(w.aggdata, snsr, ldata) ELSE w.aggdata]

\* the bucket of a sensor and its representative sample
PublishBucket(w, snsr, qdata) ==
    ReadOne(w, snsr, qdata, Aggregated(w.logger.method, qdata))

RECURSIVE ReadPhysical(_, _, _)
ReadPhysical(w, snsrs, items) ==
    IF snsrs = <<>> THEN w
    ELSE ReadPhysical(PublishBucket(w, Head(snsrs),
                                    Bucket(items, Head(snsrs))),
                      Tail(snsrs), items)

\* one iteration of the loop of _read_serial over self.aggregate.items()
AggOne(w, name, adata) ==
    [w EXCEPT
       !.feed = add_data(w.feed, name, adata),
       !.logger = IF w.logger.logdir
                  THEN CsvExtend(w.logger, name, <<adata>>)
                  ELSE w.logger]

\* the call of the aggfun of name: every aggfun reads the instance the
\* closure is left with
CallAggfun(w, name, inst) ==
    IF ~inst.sensors.some \/ inst.transform = None
    THEN [w EXCEPT !.exc = "TypeError"]
    ELSE AggOne(w, name, aggfun(inst, w.aggdata))

RECURSIVE ReadAggregate(_, _)
ReadAggregate(w, names) ==
    IF names = <<>> \/ w.exc # "none" THEN w
    ELSE ReadAggregate(
            CallAggfun(w, Head(names),
                       w.cfg[CfgIndex(w.cfg, w.logger.aggregate.instance, 1)]),
            Tail(names))

\* list(range(1, n + 1))
Range1(n) == [i \in 1..n |-> i]

\* the header labels [columns[li] for li in logids]: columns is the dict
\* zip(logids, cols) when given, else {li: "Value i+1"}
HeaderLabels(logids, cols, zipped) ==
    [i \in 1..Len(logids) |->
        IF zipped
        THEN cols[CHOOSE j \in 1..Len(logids) :
                    /\ logids[j] = logids[i]
                    /\ \A k \in (j + 1)..Len(logids) : logids[k] # logids[i]]
        ELSE "Value " \o ToString(i)]

\* the rows written for the buffer before the first entry that cannot be
\* indexed by logids; a None entry writes nothing
RECURSIVE Rows(_, _)
Rows(buf, logids) ==
    IF buf = <<>> THEN [rows |-> <<>>, exc |-> "none"]
    ELSE IF Head(buf) = NoSample THEN Rows(Tail(buf), logids)
    ELSE IF \E i \in 1..Len(logids) : logids[i] >= Len(Head(buf))
         THEN [rows |-> <<>>, exc |-> "IndexError"]
    ELSE LET rest == Rows(Tail(buf), logids) IN
         [rows |-> <<[i \in 1..Len(logids) |->
                         ToString(Head(buf)[logids[i] + 1])]>> \o rest.rows,
          exc  |-> rest.exc]

\* OpenLog writing the header row whether or not the file exists
OpenLog_always(fs, snsr, header) ==
    IF snsr \in DOMAIN fs THEN Append(fs[snsr], header) ELSE <<header>>

\* the file of a sensor as the writes find it: created with the header
\* row when path.isfile(logpath) is false
OpenLog(fs, snsr, header) ==
    IF snsr \in DOMAIN fs THEN fs[snsr] ELSE <<header>>

\* logids as first computed in _csv_append for a sensor whose samples
\* have N value columns: the configured logging ids, else one id per
\* column label, else every column
LogIds(w, snsr, N) ==
    LET cfglog == IF w.logger.config
                  THEN sensor_option(w.cfg, snsr, "logging") ELSE Nothing
        cols == IF w.logger.config
                THEN sensor_option(w.cfg, snsr, "columns") ELSE Nothing
    IN IF cfglog.some THEN cfglog.v
       ELSE IF cols.some THEN Range1(Len(cols.v))
       ELSE Range1(N)

\* logids.insert(0, 0) unless 0 is in the list
WithTime(logids) ==
    IF \E i \in 1..Len(logids) : logids[i] = 0
    THEN logids ELSE <<0>> \o logids

\* the header row of a sensor's file
Header(w, snsr, logids) ==
    LET cols == IF w.logger.config
                THEN sensor_option(w.cfg, snsr, "columns") ELSE Nothing
    IN <<"Time">> \o HeaderLabels(logids, cols.v,
                                  cols.some /\ Len(logids) = Len(cols.v))

\* the writes of one iteration of _csv_append: the header when the file
\* is created, the rows of the buffer, and the buffer reset; the configured
\* logging list is the list object that insert() changes. w.disk is the
\* condition of the log directory: "ok"; "unwritable", where open()
\* raises; "full", where the writes stay in the buffer of the file
\* object and fail when the with block closes the file, for the rows
\* after csvdata[sensor] = [] has run inside that block
WriteLog(w, snsr, logids, out) ==
    LET ok == [w EXCEPT
                 !.cfg = IF w.logger.config
                            /\ sensor_option(w.cfg, snsr, "logging").some
                         THEN [w.cfg EXCEPT
                                 ![CfgIndex(w.cfg, snsr, 1)].logging =
                                    Some(WithTime(logids))]
                         ELSE w.cfg,
                 !.files = DictSet(w.files, snsr,
                                   OpenLog(w.files, snsr,
                                           Header(w, snsr, logids))
                                   \o out.rows),
                 !.logger = IF out.exc = "none"
                            THEN [w.logger EXCEPT !.csvdata[snsr] = <<>>]
                            ELSE w.logger,
                 !.exc = out.exc]
    IN IF w.disk = "ok" THEN ok
       ELSE IF w.disk = "unwritable" THEN [w EXCEPT !.exc = "IOError"]
       ELSE IF snsr \notin DOMAIN w.files
            THEN [w EXCEPT !.files = DictSet(w.files, snsr, <<>>),
                           !.exc = "IOError"]
       ELSE [ok EXCEPT !.files = w.files, !.exc = "IOError"]

\* one iteration of the loop of _csv_append, for a sensor whose buffer
\* is not empty
AppendBuffer(w, snsr, buf, logids) ==
    WriteLog(w, snsr, logids, Rows(buf, WithTime(logids)))

\* one iteration of the loop of _csv_append, for sensor snsr:
\* len(csvdata[sensor][0]) raises TypeError on a None entry
CsvAppendOne(w, snsr) ==
    IF ~w.logger.logdir \/ w.logger.csvdata[snsr] = <<>> THEN w
    ELSE IF w.logger.csvdata[snsr][1] = NoSample
         THEN [w EXCEPT !.exc = "TypeError"]
    ELSE AppendBuffer(w, snsr, w.logger.csvdata[snsr],
                      LogIds(w, snsr, Len(w.logger.csvdata[snsr][1]) - 1))

\* Logger._csv_append: the loop over csvdata, from position n
RECURSIVE csv_append(_, _)
csv_append(w, n) ==
    IF n > Len(w.logger.csvorder) \/ w.exc # "none" THEN w
    ELSE csv_append(CsvAppendOne(w, w.logger.csvorder[n]), n + 1)

\* Logger.save at wall clock time t
save(w, t) ==
    LET elapsed == IF w.logger.lastsave >= 0
                   THEN t - w.logger.lastsave
                   ELSE w.logger.logfreq + 1
    IN IF elapsed > w.logger.logfreq
       THEN LET w1 == csv_append(w, 1) IN
            IF w1.exc # "none" THEN w1
            ELSE [w1 EXCEPT !.logger.lastsave = t]
       ELSE w

\* ready that looks at the tick counter only
ready_calls_only(self, wait, py2) == self.timer_calls > wait

\* Logger.ready(delay, wait), wait counted in tick intervals: the tick
\* counter is above wait/interval and, with a log directory, the buffers
\* hold more than 2 samples per sensor; sum(...)/len(...) divides two
\* ints, with floor on Python 2 (py2) and exactly on Python 3
ready(self, wait, py2) ==
    LET n == Len(self.csvorder)
        total == SumSeq([i \in 1..n |-> Len(self.csvdata[self.csvorder[i]])])
        havepts == /\ n > 0
                   /\ IF py2 THEN total \div n > 2 ELSE total > 2 * n
    IN self.timer_calls > wait /\ (~self.logdir \/ havepts)

\* Logger.start
start(self) ==
    IF ~self.cancel THEN [self EXCEPT !.timer = "armed"] ELSE self

\* the end of _read_serial: an exception leaves the timer thread, so
\* that start() is not reached
Restart(w) ==
    IF w.exc # "none" THEN w ELSE [w EXCEPT !.logger = start(w.logger)]

\* the call of save() that ends the branch of _read_serial with data
SaveAfter(w, t) == IF w.exc # "none" THEN w ELSE save(w, t)

\* the two loops of _read_serial over the drained items
ReadLoops(w, items) ==
    ReadAggregate(ReadPhysical(w, FirstSeen(items, <<>>), items),
                  w.logger.aggregate.names)

\* _read_serial calling save() on a tick that drained nothing as well
read_serial_always_saves(w, items, t) ==
    IF items = <<>> THEN Restart(SaveAfter(w, t))
    ELSE Restart(SaveAfter(ReadLoops(w, items), t))

\* Logger._read_serial at wall clock time t, with the items drained from
\* the queues
read_serial(w, items, t) ==
    IF items = <<>> THEN Restart(w)
    ELSE Restart(SaveAfter(ReadLoops(w, items), t))

\* the timer thread calls _read_serial: the Timer has fired
TimerFired(w) ==
    [w EXCEPT !.logger.timer_calls = w.logger.timer_calls + 1,
              !.logger.timer = "finished"]

\* Logger.stop
stop(w) ==
    LET w0 == [w EXCEPT
                 !.logger.cancel = TRUE,
                 !.logger.timer = IF w.logger.timer = "armed"
                                  THEN "cancelled" ELSE w.logger.timer]
    IN csv_append(w0, 1)

\* ------------------------------------------------------------------
\* ComMonitorThread (monitor.py)
\* ------------------------------------------------------------------
\* ComMonitorThread.__init__ followed by add_sensor for each configured
\* sensor. state is where the thread stands: "Idle" before start(),
\* "Streaming" in the loop of run(), "Closed" once run() has ended; exc is
\* the exception that ended run(); port_open and closes follow the
\* handle serial_port; joins holds the outcome of each call of join;
\* parses counts the lines handed to a sensor or to the inferrer; line is
\* the local of run() holding the line last read; reading is set while
\* the thread stands in serial_port.readline()
ComMonitorThread_init(listener, snsrs) ==
    [state     |-> "Idle",
     alive     |-> TRUE,
     listener  |-> listener,
     manual    |-> snsrs # <<>>,
     sensors   |-> snsrs,
     port_open |-> FALSE,
     closes    |-> 0,
     nread     |-> 0,
     parses    |-> 0,
     line      |-> [ok |-> TRUE, fields |-> <<>>],
     reading   |-> FALSE,
     exc       |-> "none",
     joins     |-> <<>>]

\* the head of run(): serial.Serial(**serial_arg) opens the port, or
\* raises SerialException and the handler puts e.message on the error
\* queue. The package supports Python 2.7 and 3.5 (setup.py): exceptions
\* have the attribute message on Python 2 only, on Python 3 the handler
\* itself raises AttributeError and run() ends with nothing put
RunOpen(self, eq, opens, has_message) ==
    IF opens
    THEN [com |-> [self EXCEPT !.state = "Streaming", !.port_open = TRUE],
          error_q |-> eq]
    ELSE IF has_message
    THEN [com |-> [self EXCEPT !.state = "Closed"],
          error_q |-> Append(eq, "SerialException")]
    ELSE [com |-> [self EXCEPT !.state = "Closed", !.exc = "AttributeError"],
          error_q |-> eq]

\* the loop without its break: the last sensor that parses the line decides
RECURSIVE ParseManual_last_match(_, _, _)
ParseManual_last_match(snsrs, r, n) ==
    LET p == Sensor_parse(snsrs[n], r)
        here == IF p.none THEN PNone(snsrs[n].key)
                ELSE PRet(p.vals, snsrs[n].key)
    IN IF p.exc # "none" THEN PRaise(p.exc)
       ELSE IF n = Len(snsrs) THEN here
       ELSE LET rest == ParseManual_last_match(snsrs, r, n + 1) IN
            IF rest.exc # "none" \/ ~rest.none THEN rest ELSE here

\* the loop of run() over self.sensors.values(), from position n: the
\* values of the first sensor that parses the line and its key
RECURSIVE ParseManual(_, _, _)
ParseManual(snsrs, r, n) ==
    LET p == Sensor_parse(snsrs[n], r) IN
    IF p.exc # "none" THEN PRaise(p.exc)
    ELSE IF ~p.none THEN PRet(p.vals, snsrs[n].key)
    ELSE IF n = Len(snsrs) THEN PNone(snsrs[n].key)
    ELSE ParseManual(snsrs, r, n + 1)

\* data_q.put((sensor, timestamp) + tuple(vals)) when there are values;
\* a None key is replaced by id(self)
Enqueue(q, ret, t) ==
    IF ret.exc = "none" /\ ~ret.none /\ Len(ret.vals) > 0
    THEN Append(q, <<IF ret.key = None THEN "id(self)" ELSE ret.key, t>>
                   \o ret.vals)
    ELSE q

\* the end of an iteration of the loop of run(): an exception leaves
\* run(), and the clean-up after the loop is not reached
AfterLine(w, ret) ==
    [w EXCEPT !.data_q = Enqueue(w.data_q, ret, w.com.nread),
              !.com.state = IF ret.exc = "none" THEN "Streaming" ELSE "Closed",
              !.com.exc = ret.exc]

\* the same when the inferrer parsed the line
AfterLineInferred(w, out) ==
    AfterLine([w EXCEPT !.inferrer = out.self], out.ret)

\* the iteration for a decoded, split, non-empty line r
ParseRaw(w0, r) ==
    LET w == [w0 EXCEPT !.com.parses = w0.com.parses + 1] IN
    IF w.com.manual
    THEN AfterLine(w, ParseManual(w.com.sensors, r, 1))
    ELSE AfterLineInferred(w, FormatInferrer_parse(w.inferrer, r))

\* the iteration without the test of self.listener
RunLine_no_listen(w, line) ==
    IF ~line.ok
    THEN [w EXCEPT !.com.state = "Closed",
                   !.com.exc = "UnicodeDecodeError"]
    ELSE IF line.fields = <<>> THEN w
    ELSE ParseRaw(w, line.fields)

\* one iteration of the loop of run() for the line read; a line is its
\* bytes being ASCII or not (ok) and its split fields; a listener prints
\* the raw line and continues before it is decoded
RunLine(w, line) ==
    IF w.com.listener THEN w
    ELSE IF ~line.ok
         THEN [w EXCEPT !.com.state = "Closed",
                        !.com.exc = "UnicodeDecodeError"]
    ELSE IF line.fields = <<>> THEN w
    ELSE ParseRaw(w, line.fields)

\* the clean-up of run() after the loop
RunCleanup(self) ==
    IF self.port_open
    THEN [self EXCEPT !.state = "Closed", !.port_open = FALSE,
                      !.closes = self.closes + 1]
    ELSE [self EXCEPT !.state = "Closed"]

\* ComMonitorThread.join(timeout, terminate): Thread.join raises
\* RuntimeError on a thread that was not started
join(self, terminate) ==
    [self EXCEPT
       !.alive = IF terminate THEN FALSE ELSE self.alive,
       !.joins = Append(self.joins,
                        [terminate |-> terminate,
                         exc |-> IF self.state = "Idle"
                                 THEN "RuntimeError" ELSE "none"])]

\* ------------------------------------------------------------------
\* Values of the variables of the components a specification leaves out
\* ------------------------------------------------------------------
NotCalled == [done |-> FALSE, exc |-> "none", none |-> TRUE, vals |-> <<>>]
Called(ret) ==
    [done |-> TRUE, exc |-> ret.exc, none |-> ret.none, vals |-> ret.vals]

SensorIdle ==
    /\ sensor = Sensor_init(None, 0, <<>>, "p").self
    /\ raw = <<>>
    /\ parsed = [mon |-> NotCalled, cfg |-> NotCalled]

InferIdle ==
    /\ inferrer = FormatInferrer_init(0)
    /\ fed = <<>>
    /\ rets = <<>>

ComIdle ==
    /\ com = ComMonitorThread_init(FALSE, <<>>)
    /\ data_q = <<>>
    /\ error_q = <<>>

FeedIdle ==
    /\ feed = LiveDataFeed_init
    /\ reads = EmptyDict

\* livemon.run(args) before its first statement: the script arguments
\* (listen, noplot, logdir, the ports to monitor), the sensor sections of
\* the configuration file, config._sensors_parsed (parsed), the Logger's
\* timer, the plotter and the sensors it draws, the thread on which a
\* Sensor constructor raised its ValueError (verr), and the exception
\* that left run()
run_init(listen, noplot, logdir, ports, cfg) ==
    [stage     |-> "args",
     listen    |-> listen,
     noplot    |-> noplot,
     logdir    |-> logdir,
     ports     |-> ports,
     cfg       |-> cfg,
     parsed    |-> FALSE,
     timer     |-> "none",
     plotter   |-> FALSE,
     plotorder |-> <<>>,
     verr      |-> "none",
     exc       |-> "none"]

RunIdle == run = run_init(FALSE, FALSE, FALSE, {}, <<>>)

\* no call of _read_serial is running
TimerIdle == [at |-> "idle", items |-> <<>>]

LogIdle ==
    /\ logger = Logger_init(<<>>, "last", FALSE, FALSE, FALSE, <<>>)
    /\ dataqs = <<>>
    /\ cfgsensors = <<>>
    /\ files = EmptyDict
    /\ now = 0
    /\ calls = [stops |-> <<>>, tick |-> "none", ready |-> <<>>,
                disk |-> "ok"]
    /\ pc = TimerIdle

\* ------------------------------------------------------------------
\* Specification of the descriptors: one descriptor, one raw line,
\* parsed by each of the two Sensor classes
\* ------------------------------------------------------------------
SensorKeys == {None, "W", "K"}

\* a value index names a column of the line that holds a value
ValueIndexOk(vi, dtype) ==
    vi = 0 \/ (vi < Len(dtype) /\ dtype[vi + 1] # "key")

Descriptors ==
    {Sensor_init(x[1], x[2], x[3], "p").self :
        x \in {y \in SensorKeys \X (0..(MaxFields - 1))
                     \X SeqsUpTo(DTypeNames, MaxFields) :
                  /\ Sensor_init(y[1], y[2], y[3], "p").exc = "none"
                  /\ ValueIndexOk(y[2], y[3])}}

InitSensor ==
    /\ sensor \in Descriptors
    /\ raw \in SeqsUpTo(Tokens, MaxFields)
    /\ parsed = [mon |-> NotCalled, cfg |-> NotCalled]
    /\ InferIdle /\ ComIdle /\ FeedIdle /\ LogIdle /\ RunIdle

\* a call of monitor.Sensor.parse(raw)
ParseMonitor ==
    /\ ~parsed.mon.done
    /\ parsed' = [parsed EXCEPT !.mon = Called(Sensor_parse(sensor, raw))]
    /\ UNCHANGED <<sensor, raw, inferVars, comVars, feedVars, logVars,
                 runVars>>

\* a call of config.Sensor.parse(raw)
ParseConfig ==
    /\ ~parsed.cfg.done
    /\ parsed' = [parsed EXCEPT !.cfg = Called(CfgSensor_parse(sensor, raw))]
    /\ UNCHANGED <<sensor, raw, inferVars, comVars, feedVars, logVars,
                 runVars>>

NextSensor == ParseMonitor \/ ParseConfig

SpecSensor == InitSensor /\ [][NextSensor]_vars

\* ------------------------------------------------------------------
\* Specification of the Logger: readers put samples on the data queues,
\* the timer runs _read_serial, the driver calls start() and stop()
\* ------------------------------------------------------------------
\* most calls of stop()
MaxStops == 2

\* the sensors configured in the file, by scenario
CfgW == [name |-> "W", port |-> "p1", logging |-> Some(<<1>>),
         columns |-> Some(<<"Weight">>), sensors |-> Nothing,
         transform |-> None]
CfgK == [name |-> "K", port |-> "p2", logging |-> Nothing,
         columns |-> Nothing, sensors |-> Nothing, transform |-> None]
CfgTotal(constituents) ==
    [name |-> "total", port |-> "aggregate", logging |-> Nothing,
     columns |-> Some(<<"isum">>), sensors |-> Some(constituents),
     transform |-> "sum"]

\* config file absent; sensors configured; sensors and an aggregate
\* sensor over both, or over one, of the physical sensors
Scenarios ==
    {[config |-> FALSE, aggregate |-> FALSE, cfg |-> <<>>],
     [config |-> TRUE, aggregate |-> FALSE, cfg |-> <<CfgW, CfgK>>],
     [config |-> TRUE, aggregate |-> TRUE,
      cfg |-> <<CfgW, CfgK, CfgTotal(<<"W", "K">>)>>],
     [config |-> TRUE, aggregate |-> TRUE,
      cfg |-> <<CfgW, CfgK, CfgTotal(<<"W">>)>>]}

\* the values a line of each physical sensor can carry
SampleValues(snsr) ==
    IF snsr = "W" THEN {<<5>>, <<7>>} ELSE {<<12, 3>>}

PhysicalSensors == {"W", "K"}

\* the data_q of the reader of each sensor: the two readers share one
\* queue (as set up by livemon._get_com) or have one each
QueueLayouts == {<<1, 1>>, <<1, 2>>}
ReaderOf(snsr) == IF snsr = "W" THEN 1 ELSE 2

InitLogger ==
    /\ \E sc \in Scenarios, m \in {"average", "last"}, ld \in BOOLEAN,
          qs \in QueueLayouts :
          /\ cfgsensors = sc.cfg
          /\ logger = Logger_init(qs, m, ld, sc.config, sc.aggregate, sc.cfg)
          /\ dataqs = [q \in {qs[1], qs[2]} |-> <<>>]
    /\ files = EmptyDict
    /\ now = 0
    /\ calls = [stops |-> <<>>, tick |-> "none", ready |-> <<>>,
                disk |-> "ok"]
    /\ pc = TimerIdle
    /\ feed = LiveDataFeed_init
    /\ reads = EmptyDict
    /\ RunIdle /\ SensorIdle /\ InferIdle /\ ComIdle

Queued == SumSeq([i \in 1..Len(logger.dataqs) |->
                     Len(dataqs[logger.dataqs[i]])])

World == [logger |-> logger, feed |-> feed, cfg |-> cfgsensors,
          files |-> files, aggdata |-> EmptyDict, exc |-> "none",
          disk |-> calls.disk]

\* ComMonitorThread.run puts (sensor, timestamp) + tuple(vals) on its
\* data queue; reading the line took one unit of time
PutBefore(snsr, vals, limit) ==
    /\ now < limit
    /\ Queued < MaxQueue
    /\ now' = now + 1
    /\ LET q == IF Len(logger.dataqs) = 1 THEN logger.dataqs[1]
                ELSE logger.dataqs[ReaderOf(snsr)]
       IN dataqs' = [dataqs EXCEPT
              ![q] = Append(@, <<snsr, Fix(now')>>
                                \o [i \in 1..Len(vals) |-> Fix(vals[i])])]
    /\ UNCHANGED <<logger, cfgsensors, files, calls, pc, feed, reads>>
    /\ UNCHANGED <<sensorVars, runVars, inferVars, comVars>>

Put(snsr, vals) == PutBefore(snsr, vals, MaxTime)

\* the driver calls Logger.start()
Start ==
    /\ logger.timer = "none" \/ logger.cancel
    /\ logger' = start(logger)
    /\ UNCHANGED <<dataqs, cfgsensors, files, now, calls, pc, feed, reads>>
    /\ UNCHANGED <<sensorVars, runVars, inferVars, comVars>>

\* the timer fires, one interval later, and runs Logger._read_serial
TickBefore(limit) ==
    /\ logger.timer = "armed"
    /\ now < limit
    /\ now' = now + 1
    /\ LET d == DrainAll(logger.dataqs, dataqs)
           w == read_serial(TimerFired(World), d.items, now')
       IN /\ logger' = w.logger
          /\ feed' = w.feed
          /\ cfgsensors' = w.cfg
          /\ files' = w.files
          /\ calls' = [calls EXCEPT !.tick = w.exc]
          /\ dataqs' = d.qs
    /\ UNCHANGED <<pc, reads>>
    /\ UNCHANGED <<sensorVars, runVars, inferVars, comVars>>

Tick == TickBefore(MaxTime)

\* the driver calls Logger.stop()
Stop ==
    /\ Len(calls.stops) < MaxStops
    /\ LET w == stop(World)
       IN /\ logger' = w.logger
          /\ feed' = w.feed
          /\ cfgsensors' = w.cfg
          /\ files' = w.files
          /\ calls' = [calls EXCEPT !.stops = Append(@, w.exc)]
    /\ UNCHANGED <<dataqs, now, pc, reads>>
    /\ UNCHANGED <<sensorVars, runVars, inferVars, comVars>>

Next ==
    \/ \E snsr \in PhysicalSensors : \E vals \in SampleValues(snsr) :
          Put(snsr, vals)
    \/ Start
    \/ Tick
    \/ Stop

Init == InitLogger

Spec == Init /\ [][Next]_vars


\* ------------------------------------------------------------------
\* Properties of the Logger
\* ------------------------------------------------------------------
\* a step of the timer callback _read_serial
IsTick == logger'.timer_calls = logger.timer_calls + 1

\* the samples (timestamp, values...) of a sensor that the next tick
\* drains, in drain order
DrainedOf(snsr) ==
    LET sel == SelectSeq(DrainAll(logger.dataqs, dataqs).items,
                         LAMBDA it : it[1] = snsr)
    IN [i \in 1..Len(sel) |-> Tail(sel[i])]

\* arithmetic mean of field j over the samples of q
FieldMean(q, j) == SumSeq([i \in 1..Len(q) |-> q[i][j]]) \div Len(q)

\* (tn, mean of field 1, mean of field 2, ...) of a bucket
LastStampMean(q) ==
    <<q[Len(q)][1]>> \o [j \in 1..(Len(q[1]) - 1) |-> FieldMean(q, j + 1)]

\* the rows _csv_append writes for the samples buf of a sensor
RowsOf(snsr, buf) ==
    Rows(buf, WithTime(LogIds(World, snsr,
                              IF buf = <<>> THEN 0 ELSE Len(buf[1]) - 1))).rows

\* the data rows of a sensor's file followed by the rows its buffered
\* samples will give
Logged(snsr) ==
    (IF snsr \in DOMAIN files THEN Tail(files[snsr]) ELSE <<>>)
    \o (IF snsr \in DOMAIN logger.csvdata
        THEN RowsOf(snsr, logger.csvdata[snsr]) ELSE <<>>)

IsPrefix(s, t) == Len(s) <= Len(t) /\ SubSeq(t, 1, Len(s)) = s

\* C1: a tick with method 'average' publishes, for every sensor with a
\* bucket of n >= 1 samples, the timestamp of the last drained sample
\* and the mean of every value field
C1_AverageKeepsLastTimestamp ==
    [][IsTick /\ logger.method = "average"
       => \A s \in PhysicalSensors :
             DrainedOf(s) # <<>>
             => feed'.cur_data[s] = LastStampMean(DrainedOf(s))]_vars

\* C2: a tick with method 'last' publishes, for every sensor with a
\* bucket, the last drained sample of the sensor unchanged and marks it
\* unread; the earlier samples of the bucket have no influence
C2_LastPublishesLastSample ==
    [][IsTick /\ logger.method = "last"
       => \A s \in PhysicalSensors :
             LET q == DrainedOf(s) IN
             q # <<>> => /\ s \in DOMAIN feed'.cur_data
                         /\ feed'.cur_data[s] = q[Len(q)]
                         /\ feed'.has_new_data[s]]_vars

\* one tick with method 'last' has drained two samples of W with
\* different values (both are in the file) and published the second
C2_Witness ==
    /\ logger.method = "last"
    /\ logger.timer_calls = 1
    /\ "W" \in DOMAIN files /\ "W" \in DOMAIN feed.cur_data
    /\ Len(files["W"]) = 3
    /\ files["W"][2][2] # files["W"][3][2]
    /\ ToString(feed.cur_data["W"][2]) = files["W"][3][2]

C4_HeaderOnceRowsAppended ==
    [][\A s \in DOMAIN files' :
          /\ files'[s][1][1] = "Time"
          /\ \A i \in 2..Len(files'[s]) : files'[s][i][1] # "Time"
          /\ s \in DOMAIN files => IsPrefix(files[s], files'[s])
          /\ ~IsTick => Logged(s)' = Logged(s)
          /\ IsTick /\ s \in PhysicalSensors
             => Logged(s)' = Logged(s) \o RowsOf(s, DrainedOf(s))]_vars

\* a file written by an interval flush and then by the flush of stop():
\* its last row is of a sample taken after the last interval flush
C4_Witness ==
    \E s \in DOMAIN files :
       /\ Len(files[s]) >= 3
       /\ calls.stops # <<>>
       /\ logger.lastsave >= 0
       /\ \E t \in (logger.lastsave + 1)..MaxTime :
             files[s][Len(files[s])][1] = ToString(Fix(t))

\* C6 (Logger): the second call of stop() raises nothing, writes nothing
\* and leaves the state as the first call left it
C6_SecondStopChangesNothing ==
    [][Len(calls.stops) = 1 /\ Len(calls'.stops) = 2
       => /\ calls'.stops[2] = "none"
          /\ files' = files
          /\ logger' = logger
          /\ feed' = feed
          /\ cfgsensors' = cfgsensors]_vars


\* the samples (timestamp, values...) of a sensor that wait on the data
\* queue of its reader, in the order they were put
EnqueuedOf(snsr) ==
    LET q == IF Len(logger.dataqs) = 1 THEN logger.dataqs[1]
             ELSE logger.dataqs[ReaderOf(snsr)]
        sel == SelectSeq(dataqs[q], LAMBDA it : it[1] = snsr)
    IN [i \in 1..Len(sel) |-> Tail(sel[i])]

\* C13: a tick takes every enqueued tuple off its queue, so that no later
\* tick meets it again, and its bucket holds each of them exactly once,
\* also when the readers share one queue that the Logger was given once
\* per reader (the Logger keeps each queue once): with a log directory the rows logged for a sensor grow by
\* one row per enqueued sample, in queue order
C13_EachTupleDequeuedOnce ==
    [][IsTick
       => /\ \A q \in DOMAIN dataqs' : dataqs'[q] = <<>>
          /\ logger.logdir
             => \A s \in PhysicalSensors :
                   Logged(s)' = Logged(s) \o RowsOf(s, EnqueuedOf(s))]_vars

\* two ticks have drained the one queue both readers share, and samples
\* of both sensors were logged
C13_Witness ==
    /\ Len(logger.dataqs) = 1
    /\ logger.logdir
    /\ logger.timer_calls = 2
    /\ Len(Logged("W")) = 2
    /\ Len(Logged("K")) = 1
    /\ Logged("W")[1][1] # Logged("W")[2][1]
    /\ Queued = 0

\* C17: once stop() has been called on a Logger with a log directory, the
\* directory holds one file for every key of the CSV buffer map, and no
\* other file
C17_OneFilePerBufferKey ==
    (logger.logdir /\ calls.stops # <<>>)
        => DOMAIN files = DOMAIN logger.csvdata

\* ------------------------------------------------------------------
\* Specification of the CSV files: the Logger of Spec with a log
\* directory and sensors whose logged columns are configured in every way
\* the file allows; config.Sensor documents logging as a "comma-separated
\* list of columns indices (zero-based)"
\* ------------------------------------------------------------------
CsvW(logging, columns) ==
    [name |-> "W", port |-> "p1", logging |-> logging, columns |-> columns,
     sensors |-> Nothing, transform |-> None]
CsvK(logging, columns) ==
    [name |-> "K", port |-> "p2", logging |-> logging, columns |-> columns,
     sensors |-> Nothing, transform |-> None]

\* nothing configured; labels and ids; ids in another order than the
\* columns of the line; ids without labels; ids that start at zero
CsvScenarios ==
    {[config |-> FALSE, cfg |-> <<>>],
     [config |-> TRUE,
      cfg |-> <<CsvW(Some(<<1>>), Some(<<"Weight">>)),
                CsvK(Some(<<2, 1>>), Some(<<"b", "a">>))>>],
     [config |-> TRUE,
      cfg |-> <<CsvW(Nothing, Nothing), CsvK(Some(<<2>>), Nothing)>>],
     [config |-> TRUE,
      cfg |-> <<CsvW(Some(<<0, 1>>), Some(<<"t", "Weight">>)),
                CsvK(Nothing, Some(<<"a", "b">>))>>]}

InitCsv ==
    /\ \E sc \in CsvScenarios, m \in {"average", "last"} :
          /\ cfgsensors = sc.cfg
          /\ logger = Logger_init(<<1, 1>>, m, TRUE, sc.config, FALSE, sc.cfg)
    /\ dataqs = [q \in {1} |-> <<>>]
    /\ files = EmptyDict
    /\ now = 0
    /\ calls = [stops |-> <<>>, tick |-> "none", ready |-> <<>>,
                disk |-> "ok"]
    /\ pc = TimerIdle
    /\ feed = LiveDataFeed_init
    /\ reads = EmptyDict
    /\ RunIdle /\ SensorIdle /\ InferIdle /\ ComIdle

\* a step that is a call of Logger.stop(), which always flushes
IsStop == Len(calls'.stops) = Len(calls.stops) + 1

\* the data rows of the file of a sensor
FileRows(fs, snsr) == IF snsr \in DOMAIN fs THEN Tail(fs[snsr]) ELSE <<>>

\* the entries of a buffer that are samples
Samples(buf) == SelectSeq(buf, LAMBDA e : e # NoSample)

\* C28: a flush of a buffer that holds a None entry, at whatever position,
\* does not fail, writes one row for every other entry of the buffer and
\* none for the None entry, and clears the buffer
C28_NoneEntrySkipped ==
    [][IsStop /\ logger.logdir
       => \A s \in DOMAIN logger.csvdata :
             (\E i \in 1..Len(logger.csvdata[s]) :
                 logger.csvdata[s][i] = NoSample)
             => /\ calls'.stops[Len(calls'.stops)] = "none"
                /\ logger'.csvdata[s] = <<>>
                /\ FileRows(files', s)
                      = FileRows(files, s)
                        \o RowsOf(s, Samples(logger.csvdata[s]))]_vars

\* the flush condition of save() at the tick being made: no flush yet,
\* or more than logfreq elapsed since the last one
FlushDue ==
    logger.lastsave < 0 \/ now' - logger.lastsave > logger.logfreq

\* C29: every tick of a logging Aggregator, also one that drains nothing,
\* evaluates the flush condition: when it holds every buffer is flushed
\* (left empty) and the flush time is stamped; otherwise no file is
\* written, the flush time stays and the buffers keep what they held
C29_FlushEvaluatedEveryTick ==
    [][IsTick /\ logger.logdir
       => IF FlushDue
          THEN /\ logger'.lastsave = now'
               /\ \A s \in DOMAIN logger'.csvdata : logger'.csvdata[s] = <<>>
          ELSE /\ files' = files
               /\ logger'.lastsave = logger.lastsave
               /\ \A s \in DOMAIN logger.csvdata :
                     IsPrefix(logger.csvdata[s], logger'.csvdata[s])]_vars

\* without a log directory nothing is buffered and no file exists
NothingOnDisk == logger.csvdata = EmptyDict /\ files = EmptyDict

\* a tick publishes the representative sample of every physical sensor
\* it drained a sample of, and marks it unread
TickPublishes ==
    \A s \in PhysicalSensors :
       DrainedOf(s) # <<>>
       => /\ s \in DOMAIN feed'.cur_data
          /\ feed'.cur_data[s] = Aggregated(logger.method, DrainedOf(s))
          /\ feed'.has_new_data[s]

\* C32: when no log directory is configured the CSV buffer map is empty
\* in every reachable state and no file is ever created or written,
\* whatever ticks and calls of stop() are made; every tick with data
\* still updates the Live Feed
C32_NoLogdirNoBufferNoFile ==
    /\ [](~logger.logdir => NothingOnDisk)
    /\ [][(IsTick /\ ~logger.logdir) => TickPublishes]_vars

\* without a log directory: two ticks drained samples of both sensors,
\* stop() was called, and the feed holds both
C32_Witness ==
    /\ ~logger.logdir
    /\ logger.timer_calls = 2
    /\ calls.stops = <<"none">>
    /\ logger.lastsave >= 0
    /\ DOMAIN feed.cur_data = {"W", "K"}
    /\ NothingOnDisk

\* C33: while no stop has been requested every tick, whether it drained
\* data or not, ends with exactly one timer armed for the next tick, so
\* that the ticking never ends by itself
C33_EveryTickSchedulesNext ==
    [][(IsTick /\ ~logger.cancel)
       => /\ logger'.timer = "armed"
          /\ calls'.tick = "none"]_vars

\* C36: no tick, flush, lookup or call of stop() changes a field of a
\* configured Sensor: the descriptors are the ones that were constructed
C36_SensorsReadOnly ==
    [][cfgsensors' = cfgsensors]_vars

\* C40: every value the Live Feed holds, for a physical or a derived
\* sensor, is a sample: a timestamp followed by at least one value, never
\* None and never empty
C40_FeedHoldsSamples ==
    \A k \in DOMAIN feed.cur_data :
       /\ feed.cur_data[k] # NoSample
       /\ Len(feed.cur_data[k]) >= 2

\* C31: a call of stop() on a logging Aggregator leaves no sample behind:
\* every tuple a reader had enqueued before the call is taken off its
\* queue, and the file of each physical sensor holds the rows of what was
\* logged or buffered for it followed by one row per enqueued sample
C31_StopDrainsQueues ==
    [][IsStop /\ logger.logdir
       => /\ \A q \in DOMAIN dataqs' : dataqs'[q] = <<>>
          /\ \A s \in PhysicalSensors :
                FileRows(files', s)
                   = Logged(s) \o RowsOf(s, EnqueuedOf(s))]_vars

\* ------------------------------------------------------------------
\* Specification of a Logger with two aggregate sensors: total sums W
\* and K, peak takes the maximum over K alone; the sections of the file
\* are met in either order (the order of a dict)
\* ------------------------------------------------------------------
CfgPeak == [name |-> "peak", port |-> "aggregate", logging |-> Nothing,
            columns |-> Nothing, sensors |-> Some(<<"K">>),
            transform |-> "max"]

AggScenarios ==
    {<<CfgW, CfgK, CfgTotal(<<"W", "K">>), CfgPeak>>,
     <<CfgW, CfgK, CfgPeak, CfgTotal(<<"W", "K">>)>>}

InitAgg ==
    /\ \E cfg \in AggScenarios, m \in {"average", "last"}, ld \in BOOLEAN :
          /\ cfgsensors = cfg
          /\ logger = Logger_init(<<1, 1>>, m, ld, TRUE, TRUE, cfg)
    /\ dataqs = [q \in {1} |-> <<>>]
    /\ files = EmptyDict
    /\ now = 0
    /\ calls = [stops |-> <<>>, tick |-> "none", ready |-> <<>>,
                disk |-> "ok"]
    /\ pc = TimerIdle
    /\ feed = LiveDataFeed_init
    /\ reads = EmptyDict
    /\ RunIdle /\ SensorIdle /\ InferIdle /\ ComIdle

SpecAgg == InitAgg /\ [][Next]_vars

\* the constituents listed for the derived sensor D that have a sample in
\* the tick being made, in the order of D's list
Present(D) ==
    SelectSeq(cfgsensors[CfgIndex(cfgsensors, D, 1)].sensors.v,
              LAMBDA c : DrainedOf(c) # <<>>)

\* [t, f(x_1), f(x_2), ...] from the samples the tick publishes for the
\* constituents of D, with D's own transform f
OwnDerived(D) ==
    LET own == cfgsensors[CfgIndex(cfgsensors, D, 1)]
        cs  == Present(D)
        n   == MinLen([c \in 1..Len(cs) |-> Tail(feed'.cur_data[cs[c]])])
    IN <<feed'.cur_data[cs[1]][1]>>
       \o [k \in 1..n |->
             Transform(own.transform,
                       [c \in 1..Len(cs) |-> feed'.cur_data[cs[c]][k + 1]])]

\* C27: a tick publishes for every derived sensor D with a constituent
\* that has a sample the list [t, f(x_1), ...] made from D's own
\* constituents and D's own transform
C27_DerivedFromOwnConstituents ==
    [][IsTick
       => \A D \in {"total", "peak"} :
             Present(D) # <<>>
             => /\ D \in DOMAIN feed'.cur_data
                /\ feed'.cur_data[D] = OwnDerived(D)]_vars

SpecCsv == InitCsv /\ [][Next]_vars

\* the text of a time stamp a reader can have put
IsStampText(cell) == \E t \in 1..MaxTime : cell = ToString(Fix(t))

\* C18: every file starts with a header row whose first field is Time,
\* and every data row, of the first flush and of the later ones, has as
\* many fields as the header, the time stamp first
C18_RowsFitHeader ==
    \A s \in DOMAIN files :
       /\ files[s][1][1] = "Time"
       /\ \A i \in 2..Len(files[s]) :
             /\ Len(files[s][i]) = Len(files[s][1])
             /\ IsStampText(files[s][i][1])

\* ------------------------------------------------------------------
\* Properties of the Sensor descriptors
\* ------------------------------------------------------------------
\* the field count the descriptor declares: one per type, and the key
DeclaredCount == Len(sensor.dtype) + (IF sensor.keyloc >= 0 THEN 1 ELSE 0)

\* the raw line without its key column
NonKeyFields ==
    [j \in 1..(Len(raw) - (IF sensor.keyloc >= 0 THEN 1 ELSE 0)) |->
        IF sensor.keyloc >= 0 /\ j > sensor.keyloc THEN raw[j + 1] ELSE raw[j]]

\* the line matches the descriptor: right field count, the key at the
\* key index (no key declared and none configured), every field castable
LineMatches ==
    /\ Len(raw) = DeclaredCount
    /\ sensor.keyloc < Len(raw)
    /\ IF sensor.keyloc >= 0 THEN raw[sensor.keyloc + 1] = sensor.key
       ELSE sensor.key = None
    /\ \A j \in 1..Len(sensor.dtype) :
          Caster(sensor.dtype[j], NonKeyFields[j]).exc = "none"

\* the non-key fields in wire order, each cast with its declared type
WireOrderCast ==
    [j \in 1..Len(sensor.dtype) |-> Caster(sensor.dtype[j], NonKeyFields[j]).v]

\* C8: on a line whose field count differs from the declared count,
\* parse (of either Sensor class) returns None and does not raise
C8_CountMismatchIsNoMatch ==
    Len(raw) # DeclaredCount
    => /\ parsed.mon.done => parsed.mon.exc = "none" /\ parsed.mon.none
       /\ parsed.cfg.done => parsed.cfg.exc = "none" /\ parsed.cfg.none

\* C9: on a line that matches the descriptor, parse (of either Sensor
\* class) returns the non-key fields in wire order, each cast with its
\* declared type, whatever the value index
C9_MatchGivesWireOrder ==
    LineMatches
    => /\ parsed.mon.done
          => /\ parsed.mon.exc = "none" /\ ~parsed.mon.none
             /\ parsed.mon.vals = WireOrderCast
       /\ parsed.cfg.done
          => /\ parsed.cfg.exc = "none" /\ ~parsed.cfg.none
             /\ parsed.cfg.vals = WireOrderCast

\* a call of parse returned a list of values
Returned(p) == p.done /\ p.exc = "none" /\ ~p.none

\* a call of parse returned None
ReturnedNone(p) == p.done /\ p.exc = "none" /\ p.none

\* the descriptor declares no key column and the line has one castable
\* field per declared type
KeylessCandidate ==
    /\ sensor.keyloc < 0
    /\ Len(raw) = Len(sensor.dtype)
    /\ \A j \in 1..Len(sensor.dtype) :
          Caster(sensor.dtype[j], raw[j]).exc = "none"

\* the descriptor declares a key column: parse (of either class) returns
\* values only for a line with the key at the key index
KeyColumnMatchesKeyOnly ==
    \A p \in {parsed.mon, parsed.cfg} :
       (sensor.keyloc >= 0 /\ Returned(p))
          => sensor.keyloc < Len(raw) /\ raw[sensor.keyloc + 1] = sensor.key

\* C20 as stated: without a key column every line with the right field
\* count and castable fields is parsed to its values, whatever key the
\* descriptor was configured with; with a key column only lines with the
\* key at the key index match
C20_KeylessParsesAnyLine ==
    /\ KeylessCandidate
       => \A p \in {parsed.mon, parsed.cfg} :
             p.done => Returned(p) /\ Len(p.vals) = Len(raw)
    /\ KeyColumnMatchesKeyOnly

\* C20 amended: without a key column such a line is parsed to its values
\* when the descriptor was configured with no key, and no line at all is
\* parsed (parse returns None) when it was configured with one; with a
\* key column only lines with the key at the key index match
C20_KeylessParsesOnlyWithoutKey ==
    /\ (KeylessCandidate /\ sensor.key = None)
       => \A p \in {parsed.mon, parsed.cfg} :
             p.done => Returned(p) /\ Len(p.vals) = Len(raw)
    /\ (sensor.keyloc < 0 /\ sensor.key # None)
       => \A p \in {parsed.mon, parsed.cfg} : p.done => ReturnedNone(p)
    /\ KeyColumnMatchesKeyOnly

\* both classes have parsed a line of two castable fields with a
\* descriptor of two types, no key column and the key W
C20_Witness ==
    /\ KeylessCandidate
    /\ sensor.key = "W"
    /\ Len(raw) = 2
    /\ ReturnedNone(parsed.mon)
    /\ ReturnedNone(parsed.cfg)


\* ------------------------------------------------------------------
\* Specification of the FormatInferrer: one inferrer with limit L is
\* handed lines, one call of parse per line
\* ------------------------------------------------------------------
\* largest infer_limit
MaxLimit == 2

\* most calls of parse after the first infer_limit calls
MaxFrozenCalls == 2

\* the split lines a port can deliver: keyed samples, a sample of another
\* key, a keyless sample, a short and a long line, the key last, the
\* fields swapped, the empty line, a line with two non-numeric fields
InferLines ==
    {<<"K", "12", "3.5">>, <<"K", "13", "1.5">>, <<"W", "12", "3.5">>,
     <<"12", "3.5">>, <<"K", "12">>, <<"K", "12", "3.5", "12">>,
     <<"12", "3.5", "K">>, <<"K", "3.5", "12">>, <<>>, <<"W", "12", "K">>}

InitInfer ==
    /\ \E L \in 0..MaxLimit : inferrer = FormatInferrer_init(L)
    /\ fed = <<>>
    /\ rets = <<>>
    /\ RunIdle /\ SensorIdle /\ ComIdle /\ FeedIdle /\ LogIdle

\* a call of FormatInferrer.parse(line)
ParseLine(line) ==
    /\ Len(fed) < inferrer.infer_limit + MaxFrozenCalls
    /\ LET out == FormatInferrer_parse(inferrer, line)
       IN /\ inferrer' = out.self
          /\ rets' = Append(rets, out.ret)
    /\ fed' = Append(fed, line)
    /\ UNCHANGED <<sensorVars, runVars, comVars, feedVars, logVars>>

NextInfer == \E line \in InferLines : ParseLine(line)

SpecInfer == InitInfer /\ [][NextInfer]_vars

\* ------------------------------------------------------------------
\* Properties of the FormatInferrer
\* ------------------------------------------------------------------
\* the lines [k, integer text, decimal text]
KeyedShape(k) == {<<k, "12", "3.5">>, <<k, "13", "1.5">>}

\* what parse returns for such a line once its shape is learned
KeyedSample(line) ==
    PRet(<<[type |-> "int", val |-> IntOf(line[2])],
           [type |-> "float", val |-> TenthsOf(line[3])]>>, line[1])

\* the first L calls return (None, None)
LearningCallsReturnNothing ==
    \A i \in 1..Len(rets) :
       i <= inferrer.infer_limit => rets[i] = PNone(None)

\* the line count never exceeds L: it is the number of calls up to L
\* and stays L from call L+1 on
FrozenForGood ==
    /\ inferrer.infer_count <= inferrer.infer_limit
    /\ inferrer.infer_count =
          (IF Len(fed) < inferrer.infer_limit
           THEN Len(fed) ELSE inferrer.infer_limit)

\* after a learning phase of lines [k, int, float], call L+1 on such a
\* line returns ([int value, float value], k)
KeyedLineParsedAfterLearning ==
    \A k \in {"K", "W"} :
       (/\ Len(fed) > inferrer.infer_limit
        /\ \A i \in 1..(inferrer.infer_limit + 1) : fed[i] \in KeyedShape(k))
       => rets[inferrer.infer_limit + 1]
             = KeyedSample(fed[inferrer.infer_limit + 1])

\* C10 as stated, for every limit L >= 0
C10_LearnThenFrozen ==
    /\ LearningCallsReturnNothing
    /\ FrozenForGood
    /\ KeyedLineParsedAfterLearning

\* C10 amended: the third part holds for limits L >= 1
C10_LearnThenFrozenFromOne ==
    /\ LearningCallsReturnNothing
    /\ FrozenForGood
    /\ inferrer.infer_limit >= 1 => KeyedLineParsedAfterLearning

\* limit 2, two lines [K, int, float] learned, the third call has parsed
\* such a line
C10_Witness ==
    /\ inferrer.infer_limit = 2 /\ inferrer.infer_count = 2
    /\ Len(fed) = 3
    /\ \A i \in 1..3 : fed[i] \in KeyedShape("K")
    /\ rets[1] = PNone(None) /\ rets[2] = PNone(None)
    /\ rets[3] = KeyedSample(fed[3])

\* the calls made in Frozen state: call i of parse with i > infer_limit;
\* the learned mapping is the one the inferrer holds from then on
FrozenCalls == {i \in 1..Len(fed) : i > inferrer.infer_limit}

\* no learned key is found in the line at its recorded index
NoKeyMatches(self, r) ==
    \A k \in DOMAIN self.infer_keys :
       LET v == self.infer_keys[k]
       IN v < 0 \/ v >= Len(r) \/ r[v + 1] # k

\* the fields of r cast one by one with the types at the same positions
Positional(types, r) ==
    [j \in 1..(IF Len(types) < Len(r) THEN Len(types) ELSE Len(r))
        |-> Caster(types[j], r[j])]

\* C21: in Frozen state a line that matches none of the learned keys is
\* returned as (values, None), values being its fields cast positionally
\* with the vector learned for no key, and the call does not raise,
\* whatever was learned (keyed shapes only included)
C21_UnknownKeyCastPositionally ==
    \A i \in FrozenCalls :
       NoKeyMatches(inferrer, fed[i])
       => /\ rets[i].exc = "none"
          /\ rets[i].key = None
          /\ None \in DOMAIN inferrer.inferred
             => LET c == Positional(inferrer.inferred[None], fed[i])
                IN (\A j \in DOMAIN c : c[j].exc = "none")
                   => rets[i] = PRet([j \in DOMAIN c |-> c[j].v], None)

\* the learned key k is found in the line at its recorded index
KeyMatches(self, k, r) ==
    /\ k \in DOMAIN self.infer_keys
    /\ self.infer_keys[k] >= 0
    /\ self.infer_keys[k] < Len(r)
    /\ r[self.infer_keys[k] + 1] = k

\* C22: in Frozen state a line that matches a learned key and has fewer or
\* more non-key fields than the vector learned for that key returns
\* (None, key) and does not raise
C22_LengthMismatchIsNoData ==
    \A i \in FrozenCalls : \A k \in {"K", "W"} :
       (/\ KeyMatches(inferrer, k, fed[i])
        /\ Len(fed[i]) - 1 # Len(inferrer.inferred[k]))
       => rets[i] = PNone(k)

\* the numeric-type shape _infer_structure finds in a line
Shape(r) == InferLoop(r, 0, <<>>, -1).dtype

\* the line and the result of the call that is being made
LastFed == fed'[Len(fed')]
LastRet == rets'[Len(rets')]

\* C23 as stated: in Frozen state a line of a known key whose field types
\* differ from the learned vector overwrites the vector learned for that key
C23_FrozenOverwritesVector ==
    [][\A k \in {"K", "W"} :
          (/\ ~Learning(inferrer)
           /\ KeyMatches(inferrer, k, LastFed)
           /\ Shape(LastFed) # inferrer.inferred[k])
          => inferrer'.inferred[k] = Shape(LastFed)]_vars

\* C23 amended: in Frozen state no call changes the learned mapping, also
\* not a line of a known key whose field types differ from the learned
\* vector, and a line [k, integer text, decimal text] of a key learned
\* with that shape is cast with the learned vector whatever came between
C23_FrozenKeepsVector ==
    [][~Learning(inferrer)
       => /\ inferrer' = inferrer
          /\ \A k \in {"K", "W"} :
                (/\ KeyMatches(inferrer, k, LastFed)
                 /\ LastFed \in KeyedShape(k)
                 /\ inferrer.inferred[k] = <<"int", "float">>)
                => LastRet = KeyedSample(LastFed)]_vars

\* limit 1: [K, int, float] learned, then a line of K with the types
\* swapped is refused and the next line of the learned shape is parsed
C23_Witness ==
    /\ inferrer.infer_limit = 1
    /\ fed = <<(<<"K", "12", "3.5">>), (<<"K", "3.5", "12">>),
               (<<"K", "13", "1.5">>)>>
    /\ inferrer.inferred["K"] = <<"int", "float">>
    /\ rets[2] = PNone(None)
    /\ rets[3] = KeyedSample(fed[3])

\* the positions (1-based) of the fields of r that are no numeric text
NonNumeric(r) == {i \in 1..Len(r) : ~IsFloatText(r[i])}

\* the index (0-based) of the last non-numeric field of r, -1 for none
DetectedIndex(r) ==
    IF NonNumeric(r) = {} THEN -1
    ELSE (CHOOSE i \in NonNumeric(r) : \A j \in NonNumeric(r) : j <= i) - 1

\* the key detected in r: the text of its last non-numeric field
DetectedKey(r) ==
    IF DetectedIndex(r) < 0 THEN None ELSE r[DetectedIndex(r) + 1]

\* the types of the numeric fields of r, in the order of the line
NumericShape(r) ==
    LET num == SelectSeq(r, IsFloatText)
    IN [j \in 1..Len(num) |-> IF IsIntText(num[j]) THEN "int" ELSE "float"]

\* C24: a call made during Learning leaves the shape of its line as the
\* vector of the line's detected key (a vector learned before for that key
\* is overwritten), records the index of the line's last non-numeric field
\* for that key, and leaves the entries of all other keys as they were
C24_LearningRecordsLastShape ==
    [][Learning(inferrer)
       => LET k == DetectedKey(LastFed) IN
          /\ DOMAIN inferrer'.inferred = DOMAIN inferrer.inferred \cup {k}
          /\ DOMAIN inferrer'.infer_keys = DOMAIN inferrer.infer_keys \cup {k}
          /\ inferrer'.inferred[k] = NumericShape(LastFed)
          /\ inferrer'.infer_keys[k] = DetectedIndex(LastFed)
          /\ \A o \in DOMAIN inferrer.inferred \ {k} :
                /\ inferrer'.inferred[o] = inferrer.inferred[o]
                /\ inferrer'.infer_keys[o] = inferrer.infer_keys[o]]_vars

\* limit 2: a line with the non-numeric fields W and K gives K at index 2
\* with one int, the next line of K overwrites both with its own shape
C24_Witness ==
    /\ inferrer.infer_limit = 2
    /\ fed = <<(<<"W", "12", "K">>), (<<"K", "3.5", "12">>)>>
    /\ DOMAIN inferrer.inferred = {"K"}
    /\ inferrer.inferred["K"] = <<"float", "int">>
    /\ inferrer.infer_keys["K"] = 0


\* ------------------------------------------------------------------
\* Specification of the LiveDataFeed: the Logger publishes samples, the
\* plotter reads them
\* ------------------------------------------------------------------
\* most reads of a sensor between two publications
MaxReads == 2

FeedSensors == {"W", "K"}

\* (timestamp, value) samples
FeedSamples == {<<1, 5>>, <<2, 7>>, <<3, 5>>}

InitFeed ==
    /\ feed = LiveDataFeed_init
    /\ reads = EmptyDict
    /\ RunIdle /\ SensorIdle /\ InferIdle /\ ComIdle /\ LogIdle

\* what is remembered of a sensor: the sample last published (pub, empty
\* before the first) and the outcome of each read made since (got)
ReadsOf(snsr) ==
    IF snsr \in DOMAIN reads THEN reads[snsr]
    ELSE [pub |-> <<>>, got |-> <<>>]

\* livefeed.add_data(sensor, data), as _read_serial calls it
AddData(snsr, data) ==
    /\ feed' = add_data(feed, snsr, data)
    /\ reads' = DictSet(reads, snsr, [pub |-> <<data>>, got |-> <<>>])
    /\ UNCHANGED <<sensorVars, runVars, inferVars, comVars, logVars>>

\* livefeed.read_data(sensor), as the plotter's frame update calls it
ReadData(snsr) ==
    /\ Len(ReadsOf(snsr).got) < MaxReads
    /\ LET r == read_data(feed, snsr)
       IN /\ feed' = r.self
          /\ reads' = DictSet(reads, snsr,
                 [pub |-> ReadsOf(snsr).pub,
                  got |-> Append(ReadsOf(snsr).got,
                                 [exc    |-> r.exc,
                                  data   |-> r.data,
                                  unread |-> r.self.has_new_data[snsr]])])
    /\ UNCHANGED <<sensorVars, runVars, inferVars, comVars, logVars>>

NextFeed ==
    \/ \E snsr \in FeedSensors : \E data \in FeedSamples : AddData(snsr, data)
    \/ \E snsr \in FeedSensors : ReadData(snsr)

SpecFeed == InitFeed /\ [][NextFeed]_vars

\* ------------------------------------------------------------------
\* Properties of the LiveDataFeed
\* ------------------------------------------------------------------
\* C5: after a publication the feed holds the published sample alone and
\* the unread flag is true; every read made before the next publication
\* returns the published sample and leaves the flag false
C5_PublishReadRead ==
    \A s \in DOMAIN reads :
       reads[s].pub # <<>>
       => /\ s \in DOMAIN feed.cur_data
          /\ feed.cur_data[s] = reads[s].pub[1]
          /\ feed.has_new_data[s] = (reads[s].got = <<>>)
          /\ \A i \in 1..Len(reads[s].got) :
                /\ reads[s].got[i].exc = "none"
                /\ reads[s].got[i].data = reads[s].pub[1]
                /\ ~reads[s].got[i].unread

\* W has been published and then read twice
C5_Witness ==
    /\ "W" \in DOMAIN reads
    /\ reads["W"].pub # <<>>
    /\ Len(reads["W"].got) = 2
    /\ reads["W"].got[1].data = reads["W"].got[2].data
    /\ ~feed.has_new_data["W"]

\* the step is a call of read_data for sensor s
IsRead(s) ==
    /\ s \in DOMAIN reads'
    /\ Len(reads'[s].got) = Len(ReadsOf(s).got) + 1

\* C38: the value map and the unread-flag map of the feed have the same
\* keys in every reachable state, and a read of a sensor that was never
\* published fails and leaves both maps as they were
C38_FeedMapsShareKeys ==
    /\ [](DOMAIN feed.cur_data = DOMAIN feed.has_new_data)
    /\ [][\A s \in FeedSensors :
            (IsRead(s) /\ s \notin DOMAIN feed.cur_data)
            => /\ reads'[s].got[Len(reads'[s].got)].exc = "KeyError"
               /\ feed' = feed]_vars


\* ------------------------------------------------------------------
\* Specification of a port reader: one ComMonitorThread is started, reads
\* lines from its port and is joined by the driver
\* ------------------------------------------------------------------
\* most lines the port delivers
MaxLines == 3

\* most calls of join
MaxJoins == 3

\* the sensors of the configuration file: W sends [W, int, float] and
\* plots the int, K sends [int, K]; two sensors without key that read
\* the same lines as [int, float] and as [float, float]
ReaderSetups ==
    {<<>>,
     <<Sensor_init("W", 1, <<"key", "int", "float">>, "p").self>>,
     <<Sensor_init("W", 1, <<"key", "int", "float">>, "p").self,
       Sensor_init("K", 0, <<"int", "key">>, "p").self>>,
     <<Sensor_init(None, 0, <<"int", "float">>, "p").self,
       Sensor_init(None, 0, <<"float", "float">>, "p").self>>}

\* the lines of the port: bytes that are not ASCII, and ASCII lines by
\* their split fields
ReaderLines ==
    {[ok |-> FALSE, fields |-> <<>>]}
    \cup {[ok |-> TRUE, fields |-> f] :
             f \in InferLines \cup {<<"12", "K">>, <<"K">>}}

InitReader ==
    /\ \E listener \in BOOLEAN, snsrs \in ReaderSetups, L \in 0..1 :
          /\ com = ComMonitorThread_init(listener, snsrs)
          /\ inferrer = FormatInferrer_init(L)
    /\ fed = <<>>
    /\ rets = <<>>
    /\ data_q = <<>>
    /\ error_q = <<>>
    /\ RunIdle /\ SensorIdle /\ FeedIdle /\ LogIdle

ReaderWorld == [com |-> com, inferrer |-> inferrer, data_q |-> data_q]

\* com.start(): the thread enters run() and opens the port, or fails to
ComStart(opens, has_message) ==
    /\ com.state = "Idle"
    /\ LET o == RunOpen(com, error_q, opens, has_message)
       IN com' = o.com /\ error_q' = o.error_q
    /\ UNCHANGED <<data_q, inferVars, sensorVars, runVars, feedVars, logVars>>

\* the loop of run() finds alive set, reads a line and handles it
ReadLine(line) ==
    /\ com.state = "Streaming" /\ com.alive
    /\ com.nread < MaxLines
    /\ LET w == RunLine([ReaderWorld EXCEPT !.com.nread = com.nread + 1,
                                            !.com.line = line], line)
       IN /\ com' = w.com
          /\ inferrer' = w.inferrer
          /\ data_q' = w.data_q
    /\ UNCHANGED <<error_q, fed, rets, sensorVars, runVars, feedVars, logVars>>

\* the loop of run() finds alive cleared and run() cleans up
LoopExit ==
    /\ com.state = "Streaming" /\ ~com.alive /\ ~com.reading
    /\ com' = RunCleanup(com)
    /\ UNCHANGED <<data_q, error_q, inferVars, sensorVars, runVars, feedVars, logVars>>

\* the driver calls com.join(timeout, terminate)
Join(terminate) ==
    /\ Len(com.joins) < MaxJoins
    /\ com' = join(com, terminate)
    /\ UNCHANGED <<data_q, error_q, inferVars, sensorVars, runVars, feedVars, logVars>>

NextReader ==
    \/ \E opens, has_message \in BOOLEAN : ComStart(opens, has_message)
    \/ \E line \in ReaderLines : ReadLine(line)
    \/ LoopExit
    \/ \E terminate \in BOOLEAN : Join(terminate)

SpecReader == InitReader /\ [][NextReader]_vars

\* ------------------------------------------------------------------
\* Properties of the port reader
\* ------------------------------------------------------------------
\* C7: while the reader is Streaming and no stop is signalled, no step
\* (no line it reads) takes it out of Streaming
C7_NoLineEndsReader ==
    [][com.state = "Streaming" /\ com.alive /\ com'.alive
       => com'.state = "Streaming"]_vars

\* the reader part of C6: join on a started reader raises nothing, and
\* however often it is called the handle is closed at most once
JoinClosesOnce ==
    /\ com.closes <= 1
    /\ \A i \in 1..Len(com.joins) :
          com.joins[i].exc = "none"
          \/ \A j \in 1..i : com.joins[j].exc = "RuntimeError"

\* C11: a reader in listener mode never puts a tuple on the data queue
\* and hands no line to a sensor or to the inferrer, whatever it reads
C11_ListenerQueuesNothing ==
    com.listener =>
        /\ data_q = <<>>
        /\ com.parses = 0
        /\ inferrer.infer_count = 0

\* a listener with configured sensors has read every line the port had
C11_Witness ==
    /\ com.listener
    /\ com.sensors # <<>>
    /\ com.nread = MaxLines

\* C12: a reader whose port cannot be opened puts exactly one error
\* marker on the error channel and ends in Closed without having been
\* Streaming, and it never reads a line or puts a tuple on the data queue
C12_OpenFailureReportsOnce ==
    (com.state = "Closed" /\ ~com.port_open /\ com.closes = 0)
        => /\ Len(error_q) = 1
           /\ data_q = <<>>
           /\ com.nread = 0

\* a step of the reader that reads a line in normal mode
ReadsNormally == com'.nread = com.nread + 1 /\ ~com.listener

\* the descriptors that parse the line to a list, and those that raise
Matching(snsrs, r) ==
    {n \in 1..Len(snsrs) :
        Sensor_parse(snsrs[n], r).exc = "none" /\ ~Sensor_parse(snsrs[n], r).none}
Raising(snsrs, r) ==
    {n \in 1..Len(snsrs) : Sensor_parse(snsrs[n], r).exc # "none"}

\* what resolves the line: the first descriptor in the order of the
\* reader that matches, if none before it raised, else nothing; without
\* descriptors what the inferrer returns
Resolved(self, inf, r) ==
    IF self.manual
    THEN IF \E n \in Matching(self.sensors, r) :
               \A m \in 1..(n - 1) :
                  m \notin Matching(self.sensors, r) \cup Raising(self.sensors, r)
         THEN LET n == CHOOSE n \in Matching(self.sensors, r) :
                          \A m \in Matching(self.sensors, r) : n <= m
              IN PRet(Sensor_parse(self.sensors[n], r).vals,
                      self.sensors[n].key)
         ELSE PNone(None)
    ELSE FormatInferrer_parse(inf, r).ret

InitRace ==
    /\ \E ld \in BOOLEAN, qs \in QueueLayouts :
          /\ cfgsensors = <<>>
          /\ logger = Logger_init(qs, "last", ld, FALSE, FALSE, <<>>)
          /\ dataqs = [q \in {qs[1], qs[2]} |-> <<>>]
    /\ files = EmptyDict
    /\ now = 0
    /\ calls = [stops |-> <<>>, tick |-> "none", ready |-> <<>>,
                disk |-> "ok"]
    /\ pc = TimerIdle
    /\ feed = LiveDataFeed_init
    /\ reads = EmptyDict
    /\ RunIdle /\ SensorIdle /\ InferIdle /\ ComIdle

\* the Timer fires one interval later: _read_serial counts the call and
\* drains the queues
TimerFire ==
    /\ logger.timer = "armed"
    /\ pc.at = "idle"
    /\ now < MaxTime
    /\ now' = now + 1
    /\ logger' = TimerFired(World).logger
    /\ LET d == DrainAll(logger.dataqs, dataqs)
       IN /\ dataqs' = d.qs
          /\ pc' = [at |-> "drained", items |-> d.items]
    /\ UNCHANGED <<cfgsensors, files, calls, feed, reads>>
    /\ UNCHANGED <<sensorVars, runVars, inferVars, comVars>>

\* _read_serial publishes and buffers what it drained and calls save()
TimerBuffer ==
    /\ pc.at = "drained"
    /\ LET w == IF pc.items = <<>> THEN World
                ELSE SaveAfter(ReadLoops(World, pc.items), now)
       IN /\ logger' = w.logger
          /\ feed' = w.feed
          /\ cfgsensors' = w.cfg
          /\ files' = w.files
          /\ calls' = [calls EXCEPT !.tick = w.exc]
          /\ pc' = [at |-> IF w.exc = "none" THEN "saved" ELSE "idle",
                    items |-> <<>>]
    /\ UNCHANGED <<dataqs, now, reads>>
    /\ UNCHANGED <<sensorVars, runVars, inferVars, comVars>>

\* start() at the end of _read_serial evaluates "if not self._cancel"
TimerCheck ==
    /\ pc.at = "saved"
    /\ pc' = [pc EXCEPT !.at = IF logger.cancel THEN "idle" ELSE "arming"]
    /\ UNCHANGED <<logger, dataqs, cfgsensors, files, now, calls, feed, reads>>
    /\ UNCHANGED <<sensorVars, runVars, inferVars, comVars>>

\* start() creates the next Timer and starts it; _read_serial returns
TimerArm ==
    /\ pc.at = "arming"
    /\ logger' = [logger EXCEPT !.timer = "armed"]
    /\ pc' = [pc EXCEPT !.at = "idle"]
    /\ UNCHANGED <<dataqs, cfgsensors, files, now, calls, feed, reads>>
    /\ UNCHANGED <<sensorVars, runVars, inferVars, comVars>>

NextRace ==
    \/ \E snsr \in PhysicalSensors : \E vals \in SampleValues(snsr) :
          Put(snsr, vals)
    \/ Start
    \/ TimerFire
    \/ TimerBuffer
    \/ TimerCheck
    \/ TimerArm
    \/ Stop

SpecRace == InitRace /\ [][NextRace]_vars

\* C14: once stop() has returned and no call of _read_serial is running
\* or pending, no sample is left in a CSV buffer: each was written by an
\* interval flush or by the flush of stop()
C14_NothingBufferedAfterStop ==
    (calls.stops # <<>> /\ pc.at = "idle" /\ logger.timer # "armed")
        => \A s \in DOMAIN logger.csvdata : logger.csvdata[s] = <<>>

\* C15: once stop() has been called no Timer is armed and no further
\* call of _read_serial begins; the call that was running may end
C15_NoTickAfterStop ==
    [][calls.stops # <<>>
       => /\ logger'.timer # "armed"
          /\ logger'.timer_calls = logger.timer_calls]_vars


\* ------------------------------------------------------------------
\* Specification of a monitoring session: livemon.run sets up the
\* readers, the feed and the Logger from the configuration file, starts
\* them, has the plotter drawn and returns when the run time is over
\* ------------------------------------------------------------------
\* a sensor section of the configuration file
Section(name, key, dtype, port) ==
    [name |-> name, key |-> key, dtype |-> dtype, port |-> port]

\* the configuration files: W on port p1 and K on port p2, each with or
\* without the key its dtype list asks for, with or without an aggregate
\* sensor, which has no key and the default dtype
RunConfigs ==
    {<<w, k>> \o t :
        w \in {Section("W", "W", <<"key", "int">>, "p1"),
               Section("W", None, <<"key", "int">>, "p1")},
        k \in {Section("K", None, <<"int">>, "p2"),
               Section("K", None, <<"int", "key">>, "p2")},
        t \in {<<>>, <<Section("total", None, <<"key", "int", "float">>,
                               "aggregate")>>}}

\* the ports named on the command line: at least one physical port
RunPorts ==
    {P \in SUBSET {"p1", "p2", "aggregate"} : P \cap {"p1", "p2"} # {}}

\* the sample a tick publishes for a sensor
RunSample == <<1, 5>>

\* ComMonitorThread.from_config(config, port): add_sensor constructs a
\* monitor.Sensor for every section of that port
from_config(cfg, port) ==
    IF \E i \in 1..Len(cfg) :
          /\ cfg[i].port = port
          /\ Sensor_init(cfg[i].key, 0, cfg[i].dtype, port).exc # "none"
    THEN "ValueError" ELSE "none"

\* livemon._get_com with a configuration file: a reader from_config for
\* every port but "aggregate"
get_com(cfg, ports) ==
    IF \E port \in ports \ {"aggregate"} : from_config(cfg, port) # "none"
    THEN "ValueError" ELSE "none"

\* config._load_sensors: a config.Sensor for every section of the file
load_sensors(cfg) ==
    IF \E i \in 1..Len(cfg) :
          CfgSensor_init(cfg[i].key, 0, cfg[i].dtype, cfg[i].port).exc # "none"
    THEN "ValueError" ELSE "none"

\* the sensors whose lines a reader of the session parses
Monitored(r) ==
    {r.cfg[i].name : i \in {j \in 1..Len(r.cfg) :
                               r.cfg[j].port \in r.ports \ {"aggregate"}}}

\* the aggregate sensors the Logger computes
Aggregates(r) ==
    IF "aggregate" \in r.ports
    THEN {r.cfg[i].name : i \in {j \in 1..Len(r.cfg) :
                                    r.cfg[j].port = "aggregate"}}
    ELSE {}

\* sorted(keys, key=str) for the sensor names of the session
SortedKeys(keys) ==
    SelectSeq(<<"K", "W", "total">>, LAMBDA k : k \in keys)

\* livefeed.add_data for each sensor of a list
RECURSIVE AddAll(_, _)
AddAll(f, snsrs) ==
    IF snsrs = <<>> THEN f
    ELSE AddAll(add_data(f, Head(snsrs), RunSample), Tail(snsrs))

\* livefeed.read_data for each sensor of Plotter._plotorder
RECURSIVE ReadAll(_, _)
ReadAll(f, snsrs) ==
    IF snsrs = <<>> THEN f
    ELSE ReadAll(read_data(f, Head(snsrs)).self, Tail(snsrs))

InitRun ==
    /\ \E listen, noplot, logdir \in BOOLEAN, ports \in RunPorts,
          cfg \in RunConfigs :
          run = run_init(listen, noplot, logdir, ports, cfg)
    /\ feed = LiveDataFeed_init
    /\ reads = EmptyDict
    /\ SensorIdle /\ InferIdle /\ ComIdle /\ LogIdle

\* a ValueError leaves run() and reaches its caller
RunRaised(r, where) ==
    [r EXCEPT !.stage = "raised", !.exc = "ValueError", !.verr = where]

\* coms = _get_com(args)
GetCom ==
    /\ run.stage = "args"
    /\ run' = IF get_com(run.cfg, run.ports) = "none"
              THEN [run EXCEPT !.stage = "coms"]
              ELSE RunRaised(run, "setup")
    /\ UNCHANGED <<feedVars, sensorVars, inferVars, comVars, logVars>>

\* Logger(...): with the port "aggregate" its constructor asks for the
\* aggregate sensors, which loads the sensors of the file
MakeLogger ==
    /\ run.stage = "coms"
    /\ run' = IF "aggregate" \notin run.ports
              THEN [run EXCEPT !.stage = "logger"]
              ELSE IF load_sensors(run.cfg) = "none"
              THEN [run EXCEPT !.stage = "logger", !.parsed = TRUE]
              ELSE RunRaised(run, "setup")
    /\ UNCHANGED <<feedVars, sensorVars, inferVars, comVars, logVars>>

\* _com_start(coms), and logger.start() unless listening
StartThreads ==
    /\ run.stage = "logger"
    /\ run' = [run EXCEPT !.stage = "started",
                          !.timer = IF run.listen THEN "none" ELSE "armed"]
    /\ UNCHANGED <<feedVars, sensorVars, inferVars, comVars, logVars>>

\* a tick of the Logger with samples of the sensors snsrs: they and the
\* aggregate sensors are published; with a log directory save() asks for
\* the sensor options, which loads the sensors of the file on the first
\* call, and a ValueError ends the timer thread before start()
RunTick(snsrs) ==
    /\ run.stage = "started"
    /\ run.timer = "armed"
    /\ snsrs # <<>>
    /\ \A i \in 1..Len(snsrs) : snsrs[i] \in Monitored(run)
    /\ feed' = AddAll(feed, snsrs \o SortedKeys(Aggregates(run)))
    /\ run' = IF ~run.logdir \/ run.parsed THEN run
              ELSE IF load_sensors(run.cfg) = "none"
              THEN [run EXCEPT !.parsed = TRUE]
              ELSE [run EXCEPT !.timer = "dead", !.verr = "timer"]
    /\ UNCHANGED <<reads, sensorVars, inferVars, comVars, logVars>>

\* Plotter(feed, ...): the sensors to draw are the keys of the feed; the
\* constructor asks the Logger for the options of each of them
MakePlotter ==
    /\ run.stage = "started"
    /\ ~run.noplot /\ ~run.listen /\ ~run.plotter
    /\ run' = IF DOMAIN feed.cur_data = {}
              THEN [run EXCEPT !.stage = "raised", !.exc = "ValueError"]
              ELSE IF ~run.parsed /\ load_sensors(run.cfg) # "none"
              THEN RunRaised(run, "plotter")
              ELSE [run EXCEPT !.parsed = TRUE, !.plotter = TRUE,
                               !.plotorder = SortedKeys(DOMAIN feed.cur_data)]
    /\ UNCHANGED <<feedVars, sensorVars, inferVars, comVars, logVars>>

\* the plotter's timer runs _draw_frame
RunDraw ==
    /\ run.stage = "started"
    /\ run.plotter
    /\ feed' = ReadAll(feed, run.plotorder)
    /\ UNCHANGED <<run, reads, sensorVars, inferVars, comVars, logVars>>

\* the run time is over: logger.stop(), whose flush asks for the sensor
\* options when a buffer holds samples, com.join(1) for every reader and
\* plotter.stop(); run() returns
RunReturn ==
    /\ run.stage = "started"
    /\ run' = IF run.timer = "dead"
              THEN RunRaised(run, "stop")
              ELSE [run EXCEPT !.stage = "returned",
                               !.timer = IF run.timer = "armed"
                                         THEN "cancelled" ELSE run.timer]
    /\ UNCHANGED <<feedVars, sensorVars, inferVars, comVars, logVars>>

NextRun ==
    \/ GetCom
    \/ MakeLogger
    \/ StartThreads
    \/ \E snsrs \in {<<"W">>, <<"K">>, <<"W", "K">>} : RunTick(snsrs)
    \/ MakePlotter
    \/ RunDraw
    \/ RunReturn

SpecRun == InitRun /\ [][NextRun]_vars

\* a section that asks for a key and has none, on a physical port
Invalid(sec) ==
    /\ \E i \in 1..Len(sec.dtype) : sec.dtype[i] = "key"
    /\ sec.key = None
    /\ sec.port # "aggregate"

\* C16: the ValueError of a descriptor that asks for a key and has none
\* is raised during the setup, before a reader is started, and leaves
\* run() to its caller; the descriptor of an aggregate sensor raises none
C16_KeyErrorRaisedInSetup ==
    /\ run.verr \in {"none", "setup"}
    /\ run.verr # "none"
       => /\ run.exc = "ValueError"
          /\ \E i \in 1..Len(run.cfg) : Invalid(run.cfg[i])

\* C19: when run() has returned every entry of the feed has its unread
\* flag set, whether the session listened, logged only or plotted
C19_AllUnreadAtReturn ==
    run.stage = "returned"
        => \A s \in DOMAIN feed.has_new_data : feed.has_new_data[s]

\* ------------------------------------------------------------------
\* Specification of the stop of a port reader: the test of the loop of
\* run() and the blocking read are two steps, so that join can clear the
\* flag while a read is in flight; the thread is scheduled fairly and
\* every read returns (serial_port.readline() has a timeout)
\* ------------------------------------------------------------------
\* what the port delivers: an empty read (the timeout), bytes that are
\* not ASCII, samples of W and K, a line too short for the key of K
StopLines ==
    {[ok |-> FALSE, fields |-> <<>>]}
    \cup {[ok |-> TRUE, fields |-> f] :
             f \in {<<>>, <<"W", "12", "3.5">>, <<"12", "K">>, <<"K">>,
                    <<"12", "3.5">>}}

\* while self.alive.isSet(): the flag is found set and readline() entered
LoopTest ==
    /\ com.state = "Streaming" /\ ~com.reading /\ com.alive
    /\ com.nread < MaxLines
    /\ com' = [com EXCEPT !.reading = TRUE]
    /\ UNCHANGED <<data_q, error_q, inferVars, sensorVars, runVars, feedVars, logVars>>

\* readline() returns and the rest of the loop body handles the line
LineRead(line) ==
    /\ com.state = "Streaming" /\ com.reading
    /\ LET w == RunLine([ReaderWorld EXCEPT !.com.nread = com.nread + 1,
                                            !.com.line = line,
                                            !.com.reading = FALSE], line)
       IN /\ com' = w.com
          /\ inferrer' = w.inferrer
          /\ data_q' = w.data_q
    /\ UNCHANGED <<error_q, fed, rets, sensorVars, runVars, feedVars, logVars>>

\* the steps of the reader thread
ReaderStep == LoopTest \/ (\E line \in StopLines : LineRead(line)) \/ LoopExit

NextStop ==
    \/ \E opens, has_message \in BOOLEAN : ComStart(opens, has_message)
    \/ LoopTest
    \/ \E line \in StopLines : LineRead(line)
    \/ LoopExit
    \/ \E terminate \in BOOLEAN : Join(terminate)

SpecStop == InitReader /\ [][NextStop]_vars /\ WF_vars(ReaderStep)

\* a Streaming reader whose flag was cleared ends Closed with its handle
\* closed
StopLeadsToClosed ==
    (com.state = "Streaming" /\ ~com.alive)
        ~> (com.state = "Closed" /\ ~com.port_open)

\* once the flag is cleared a line is read only if its read was in flight
OnlyTheLineInFlight ==
    [][(~com.alive /\ com'.nread # com.nread) => com.reading]_vars

\* join(terminate=False) leaves every attribute of the reader as it was
JoinWithoutTerminate ==
    [][(Len(com'.joins) > Len(com.joins)
        /\ ~com'.joins[Len(com'.joins)].terminate)
       => [com' EXCEPT !.joins = com.joins] = com]_vars

\* C26: after join(terminate=True) a Streaming reader finishes at most the
\* line whose read is in flight, never starts another read, and eventually
\* leaves the loop, closes its handle and is Closed; join(terminate=False)
\* changes nothing in the reader
C26_StopEndsReader ==
    /\ StopLeadsToClosed
    /\ OnlyTheLineInFlight
    /\ JoinWithoutTerminate

\* ------------------------------------------------------------------
\* Specification of the readiness probe: a Logger of one sensor, with or
\* without a log directory, whose driver polls ready() between the ticks
\* and stops it; the flush interval is long enough for a buffer to grow
\* ------------------------------------------------------------------
\* the latest time of a sample or a tick
MaxReadyTime == 8

\* most calls of ready()
MaxReady == 2

\* logfreq, in tick intervals
ReadyLogFreq == 4

\* the argument wait of ready(), in tick intervals (livemon passes
\* args["wait"], 1 second by default)
ReadyWait == 1

InitReady ==
    /\ \E ld \in BOOLEAN :
          logger = [Logger_init(<<1, 1>>, "last", ld, FALSE, FALSE, <<>>)
                       EXCEPT !.logfreq = ReadyLogFreq]
    /\ cfgsensors = <<>>
    /\ dataqs = [q \in {1} |-> <<>>]
    /\ files = EmptyDict
    /\ now = 0
    /\ calls = [stops |-> <<>>, tick |-> "none", ready |-> <<>>,
                disk |-> "ok"]
    /\ pc = TimerIdle
    /\ feed = LiveDataFeed_init
    /\ reads = EmptyDict
    /\ RunIdle /\ SensorIdle /\ InferIdle /\ ComIdle

\* the driver calls logger.ready(0.05, wait) on one of the interpreters
Ready(py2) ==
    /\ Len(calls.ready) < MaxReady
    /\ calls' = [calls EXCEPT
                   !.ready = Append(@, [py2 |-> py2,
                                        ret |-> ready(logger, ReadyWait, py2)])]
    /\ UNCHANGED <<logger, dataqs, cfgsensors, files, now, pc, feed, reads>>
    /\ UNCHANGED <<sensorVars, runVars, inferVars, comVars>>

NextReady ==
    \/ PutBefore("W", <<5>>, MaxReadyTime)
    \/ Start
    \/ TickBefore(MaxReadyTime)
    \/ Stop
    \/ \E py2 \in BOOLEAN : Ready(py2)

SpecReady == InitReady /\ [][NextReady]_vars

\* of two calls of ready() on the same interpreter the later one returns
\* true when the earlier one did
ReadyStaysTrue ==
    \A i, j \in 1..Len(calls.ready) :
       (i < j /\ calls.ready[i].py2 = calls.ready[j].py2
        /\ calls.ready[i].ret) => calls.ready[j].ret

\* the number of buffered samples and of buffers
Buffered == SumSeq([i \in 1..Len(logger.csvorder) |->
                       Len(logger.csvdata[logger.csvorder[i]])])

\* what the call of ready() being made returns
ReadyRet == calls'.ready[Len(calls'.ready)].ret

\* C30 as stated: ready() is monotone, with or without logging
C30_ReadyMonotone == ReadyStaysTrue

\* C30 amended: without logging ready() is monotone; with logging it
\* returns true only when the tick counter is above wait/interval and the
\* buffers hold more than 2 samples per sensor on average, and it returns
\* false whenever the buffers are empty, as they are after a flush
C30_ReadyFollowsBuffers ==
    /\ [](~logger.logdir => ReadyStaysTrue)
    /\ [][(Len(calls'.ready) > Len(calls.ready) /\ logger.logdir)
          => /\ ReadyRet => /\ logger.timer_calls > ReadyWait
                            /\ Buffered > 2 * Len(logger.csvorder)
             /\ Buffered = 0 => ~ReadyRet]_vars

\* with logging: ready() returned true on three buffered samples, a flush
\* wrote them to the file, and the next call returned false
C30_Witness ==
    /\ logger.logdir
    /\ Len(calls.ready) = 2
    /\ calls.ready[1].py2 = calls.ready[2].py2
    /\ calls.ready[1].ret /\ ~calls.ready[2].ret
    /\ "W" \in DOMAIN files /\ Len(files["W"]) >= 4
    /\ logger.csvdata["W"] = <<>>


\* ------------------------------------------------------------------
\* Specification of the frame of a tick: a logging Logger over the
\* sensors W and K, with and without a derived sensor, watched long
\* enough for a tick that buffers to be followed by a tick that flushes
\* ------------------------------------------------------------------
\* the horizon of the wall clock
MaxFrameTime == 6

FrameScenarios ==
    {[config |-> TRUE, aggregate |-> FALSE, cfg |-> <<CfgW, CfgK>>],
     [config |-> TRUE, aggregate |-> TRUE,
      cfg |-> <<CfgW, CfgK, CfgTotal(<<"W", "K">>)>>]}

InitFrame ==
    /\ \E sc \in FrameScenarios, m \in {"average", "last"} :
          /\ cfgsensors = sc.cfg
          /\ logger = Logger_init(<<1, 1>>, m, TRUE, sc.config,
                                  sc.aggregate, sc.cfg)
    /\ dataqs = [q \in {1} |-> <<>>]
    /\ files = EmptyDict
    /\ now = 0
    /\ calls = [stops |-> <<>>, tick |-> "none", ready |-> <<>>,
                disk |-> "ok"]
    /\ pc = TimerIdle
    /\ feed = LiveDataFeed_init
    /\ reads = EmptyDict
    /\ RunIdle /\ SensorIdle /\ InferIdle /\ ComIdle

NextFrame ==
    \/ \E snsr \in PhysicalSensors : \E vals \in SampleValues(snsr) :
          PutBefore(snsr, vals, MaxFrameTime)
    \/ Start
    \/ TickBefore(MaxFrameTime)
    \/ Stop

SpecFrame == InitFrame /\ [][NextFrame]_vars

\* the sensors a tick has something for: the physical sensors it drains
\* a sample of and, when there is one, the derived sensors
Touched ==
    LET D == {s \in PhysicalSensors : DrainedOf(s) # <<>>} IN
    IF D = {} THEN {}
    ELSE D \union {logger.aggregate.names[i] :
                      i \in DOMAIN logger.aggregate.names}

\* the Live Feed entries of the sensors a tick has nothing for stay
FeedFrame ==
    /\ DOMAIN feed'.cur_data \subseteq DOMAIN feed.cur_data \union Touched
    /\ \A k \in DOMAIN feed.cur_data \ Touched :
          /\ k \in DOMAIN feed'.cur_data
          /\ feed'.cur_data[k] = feed.cur_data[k]
          /\ feed'.has_new_data[k] = feed.has_new_data[k]

\* a tick that drains nothing changes the tick counter and the timer only
IdleTickFrame ==
    Touched = {}
    => /\ feed' = feed
       /\ files' = files
       /\ logger' = [logger EXCEPT !.timer_calls = logger.timer_calls + 1,
                                   !.timer = logger'.timer]

\* C34 as claimed: a tick changes the Live Feed entry and the CSV buffer
\* only of the physical sensors it drained a sample of and of the derived
\* sensors; a tick that drains nothing changes no Live Feed entry, no
\* CSV buffer and not the last-flush time
C34_TickTouchesOnlyDrained ==
    [][IsTick
       => /\ FeedFrame
          /\ IdleTickFrame
          /\ DOMAIN logger'.csvdata
                \subseteq DOMAIN logger.csvdata \union Touched
          /\ \A k \in DOMAIN logger.csvdata \ Touched :
                logger'.csvdata[k] = logger.csvdata[k]]_vars

\* C34: as above, except that the flush of a tick with data, when it is
\* due, empties the CSV buffers of the other sensors as well
C34_TickTouchesOnlyDrainedOrFlushes ==
    [][IsTick
       => /\ FeedFrame
          /\ IdleTickFrame
          /\ DOMAIN logger'.csvdata
                \subseteq DOMAIN logger.csvdata \union Touched
          /\ \A k \in DOMAIN logger.csvdata \ Touched :
                \/ logger'.csvdata[k] = logger.csvdata[k]
                \/ /\ Touched # {}
                   /\ FlushDue
                   /\ logger'.csvdata[k] = <<>>]_vars

\* the third tick, at time 6, drained a sample of K only and flushed the
\* sample of W that the second tick had buffered
C34_Witness ==
    /\ logger.timer_calls = 3
    /\ logger.lastsave = 6
    /\ now = 6
    /\ calls.tick = "none"
    /\ Len(FileRows(files, "W")) = 2
    /\ Len(FileRows(files, "K")) = 1
    /\ logger.csvdata["W"] = <<>>
    /\ feed.cur_data["W"][1] = Fix(3)
    /\ feed.cur_data["K"][1] = Fix(5)

\* ------------------------------------------------------------------
\* Specification of the flush on a failing disk: the logging Logger of
\* Spec over the sensors W and K, while the condition of the log
\* directory changes under it
\* ------------------------------------------------------------------
DiskConditions == {"ok", "unwritable", "full"}

InitDisk ==
    /\ \E c \in BOOLEAN, m \in {"average", "last"} :
          /\ cfgsensors = IF c THEN <<CfgW, CfgK>> ELSE <<>>
          /\ logger = Logger_init(<<1, 1>>, m, TRUE, c, FALSE, cfgsensors)
    /\ dataqs = [q \in {1} |-> <<>>]
    /\ files = EmptyDict
    /\ now = 0
    /\ calls = [stops |-> <<>>, tick |-> "none", ready |-> <<>>,
                disk |-> "ok"]
    /\ pc = TimerIdle
    /\ feed = LiveDataFeed_init
    /\ reads = EmptyDict
    /\ RunIdle /\ SensorIdle /\ InferIdle /\ ComIdle

\* the log directory becomes unwritable, or full, or usable again
DiskChange(d) ==
    /\ d # calls.disk
    /\ calls' = [calls EXCEPT !.disk = d]
    /\ UNCHANGED <<logger, dataqs, cfgsensors, files, now, pc, feed, reads>>
    /\ UNCHANGED <<sensorVars, runVars, inferVars, comVars>>

NextDisk ==
    \/ Next
    \/ \E d \in DiskConditions : DiskChange(d)

SpecDisk == InitDisk /\ [][NextDisk]_vars

\* the buffers as the flush of the step finds them: what was buffered
\* and, for a tick, what it drains
PreFlush(s) ==
    (IF s \in DOMAIN logger.csvdata THEN logger.csvdata[s] ELSE <<>>)
    \o (IF IsTick THEN DrainedOf(s) ELSE <<>>)

\* the step flushes: a call of stop(), or a tick with data whose flush
\* is due
Flushes ==
    \/ IsStop
    \/ /\ IsTick /\ FlushDue
       /\ \E s \in PhysicalSensors : DrainedOf(s) # <<>>

\* the outcome of the call the step makes
FlushExc ==
    IF IsStop THEN calls'.stops[Len(calls'.stops)] ELSE calls'.tick

\* the sensor whose file the flush fails on: the first one in the order
\* of the buffer map that has something buffered
WriteFailsOn(s) ==
    /\ calls.disk # "ok"
    /\ PreFlush(s) # <<>>
    /\ \E i \in DOMAIN logger'.csvorder :
          /\ logger'.csvorder[i] = s
          /\ \A j \in 1..(i - 1) : PreFlush(logger'.csvorder[j]) = <<>>

\* C35: when the write of a sensor's file fails during a flush the error
\* leaves the flush, the buffer of that sensor keeps every sample it
\* held, and the flush time is not stamped
C35_FailedWriteKeepsBuffer ==
    [][Flushes
       => \A s \in PhysicalSensors :
             WriteFailsOn(s)
             => /\ FlushExc = "IOError"
                /\ logger'.csvdata[s] = PreFlush(s)
                /\ logger'.lastsave = logger.lastsave]_vars

\* ------------------------------------------------------------------
\* Specification of the start of the readers: livemon._com_start starts
\* the readers of the session one after another and looks, after each,
\* for an error on the error queue, which livemon._get_com created once
\* and gave to every reader. Here com holds one record per reader, in
\* the order of coms, and run holds the loop of _com_start: the index i
\* of the reader it stands at, whether that reader was started, the
\* readers it replaced by None (marks), and whether exceptions have the
\* attribute message (Python 2)
\* ------------------------------------------------------------------
\* readers of the session
MaxReaders == 2

ReaderIds == 1..MaxReaders

InitStart ==
    /\ com = [i \in ReaderIds |-> ComMonitorThread_init(FALSE, <<>>)]
    /\ \E py2 \in BOOLEAN :
          run = [i |-> 1, started |-> FALSE, has_message |-> py2,
                 marks |-> [i \in ReaderIds |-> FALSE]]
    /\ data_q = <<>>
    /\ error_q = <<>>
    /\ SensorIdle /\ InferIdle /\ FeedIdle /\ LogIdle

\* com.start() for the reader the loop stands at: the thread is created
\* and will enter run()
StartReader ==
    /\ run.i \in ReaderIds /\ ~run.started
    /\ com' = [com EXCEPT ![run.i].state = "Opening"]
    /\ run' = [run EXCEPT !.started = TRUE]
    /\ UNCHANGED <<data_q, error_q, sensorVars, inferVars, feedVars, logVars>>

\* the thread of reader i comes to the end of serial.Serial(...): the
\* port is open, or the open has failed
OpenPort(i, opens) ==
    /\ com[i].state = "Opening"
    /\ LET o == RunOpen(com[i], error_q, opens, run.has_message)
       IN com' = [com EXCEPT ![i] = o.com] /\ error_q' = o.error_q
    /\ UNCHANGED <<data_q, run, sensorVars, inferVars, feedVars, logVars>>

\* com.join(0.05, terminate=False) has returned, because the thread
\* ended or the time was over; get_item_from_queue(com.error_q) takes
\* the first item of the queue, if there is one, and then the reader is
\* replaced by None
CheckReader ==
    /\ run.i \in ReaderIds /\ run.started
    /\ com' = [com EXCEPT ![run.i] = join(com[run.i], FALSE)]
    /\ error_q' = IF error_q = <<>> THEN error_q ELSE Tail(error_q)
    /\ run' = [run EXCEPT !.i = run.i + 1, !.started = FALSE,
                          !.marks[run.i] = error_q # <<>>]
    /\ UNCHANGED <<data_q, sensorVars, inferVars, feedVars, logVars>>

\* reader i is told to stop: com.join(1), which clears its flag
StopReader(i) ==
    /\ run.i > MaxReaders
    /\ com[i].state # "Idle" /\ com[i].alive
    /\ com' = [com EXCEPT ![i] = join(com[i], TRUE)]
    /\ UNCHANGED <<data_q, error_q, run, sensorVars, inferVars, feedVars, logVars>>

\* the loop of reader i finds its flag cleared and run() cleans up
ExitReader(i) ==
    /\ com[i].state = "Streaming" /\ ~com[i].alive
    /\ com' = [com EXCEPT ![i] = RunCleanup(com[i])]
    /\ UNCHANGED <<data_q, error_q, run, sensorVars, inferVars, feedVars, logVars>>

NextStart ==
    \/ StartReader
    \/ \E i \in ReaderIds, opens \in BOOLEAN : OpenPort(i, opens)
    \/ CheckReader
    \/ \E i \in ReaderIds : StopReader(i)
    \/ \E i \in ReaderIds : ExitReader(i)

SpecStart == InitStart /\ [][NextStart]_vars

\* the open of reader i has failed: its run() has ended and the port was
\* never open
OpenFailed(i) ==
    com[i].state = "Closed" /\ ~com[i].port_open /\ com[i].closes = 0

\* the open of reader i has succeeded
Opened(i) == com[i].port_open \/ com[i].closes > 0

\* _com_start has returned and every open has come to its end
AllStarted ==
    /\ run.i > MaxReaders
    /\ \A i \in ReaderIds : com[i].state \notin {"Idle", "Opening"}

\* C37: of the readers of a session, which share the error queue, those
\* and only those whose open failed are marked as failed once they are
\* all started, a reader that opened is never marked, and a reader that
\* opened keeps Streaming until it is itself told to stop
C37_OpenFailureStaysLocal ==
    /\ [](AllStarted => \A i \in ReaderIds : run.marks[i] <=> OpenFailed(i))
    /\ [](\A i \in ReaderIds : Opened(i) => ~run.marks[i])
    /\ [][\A i \in ReaderIds :
            (com[i].state = "Streaming" /\ com[i].alive)
            => com'[i].state = "Streaming"]_vars

\* ------------------------------------------------------------------
\* Specification of the LiveDataFeed between two threads: the timer
\* thread of the Logger publishes with add_data while the plot thread
\* reads with read_data, and the threads can change places between any
\* two statements. pc holds where add_data stands and its arguments;
\* a read that has stored the flag and not yet returned is the entry
\* "running" of reads[sensor].got. The plotter reads the sensors that
\* were in the feed when it was made
\* ------------------------------------------------------------------
InitFeedRace == InitFeed

\* the samples of a sensor are published with growing timestamps
NextSample(snsr) ==
    {d \in FeedSamples :
        d[1] = IF ReadsOf(snsr).pub = <<>> THEN 1
               ELSE ReadsOf(snsr).pub[1][1] + 1}

\* a read of the sensor has stored the flag and not returned
Running(snsr) ==
    /\ ReadsOf(snsr).got # <<>>
    /\ ReadsOf(snsr).got[Len(ReadsOf(snsr).got)].exc = "running"

\* add_data: self.cur_data[sensor] = data
PubStore(snsr, data) ==
    /\ pc.at = "idle"
    /\ data \in NextSample(snsr)
    /\ feed' = add_data_step(feed, snsr, data, 1)
    /\ reads' = DictSet(reads, snsr,
                        [pub |-> <<data>>, got |-> ReadsOf(snsr).got])
    /\ pc' = [at |-> "add_data", items |-> <<snsr, data>>]
    /\ UNCHANGED <<logger, dataqs, cfgsensors, files, now, calls>>
    /\ UNCHANGED <<sensorVars, runVars, inferVars, comVars>>

\* add_data: self.has_new_data[sensor] = True
PubFlag ==
    /\ pc.at = "add_data"
    /\ feed' = add_data_step(feed, pc.items[1], pc.items[2], 2)
    /\ pc' = TimerIdle
    /\ UNCHANGED <<reads, logger, dataqs, cfgsensors, files, now, calls>>
    /\ UNCHANGED <<sensorVars, runVars, inferVars, comVars>>

\* read_data: self.has_new_data[sensor] = False
ReadClear(snsr) ==
    /\ snsr \in DOMAIN feed.cur_data
    /\ \A o \in FeedSensors : ~Running(o)
    /\ Len(ReadsOf(snsr).got) < MaxReads
    /\ feed' = [feed EXCEPT
                  !.has_new_data = DictSet(feed.has_new_data, snsr, FALSE)]
    /\ reads' = [reads EXCEPT
                   ![snsr].got = Append(@, [exc |-> "running", data |-> <<>>,
                                            unread |-> FALSE])]
    /\ UNCHANGED <<logger, dataqs, cfgsensors, files, now, calls, pc>>
    /\ UNCHANGED <<sensorVars, runVars, inferVars, comVars>>

\* read_data: return self.cur_data[sensor]
ReadReturn(snsr) ==
    /\ Running(snsr)
    /\ reads' = [reads EXCEPT
                   ![snsr].got[Len(reads[snsr].got)] =
                      [exc |-> "none", data |-> feed.cur_data[snsr],
                       unread |-> feed.has_new_data[snsr]]]
    /\ UNCHANGED <<feed, logger, dataqs, cfgsensors, files, now, calls, pc>>
    /\ UNCHANGED <<sensorVars, runVars, inferVars, comVars>>

NextFeedRace ==
    \/ \E snsr \in FeedSensors : \E data \in FeedSamples : PubStore(snsr, data)
    \/ PubFlag
    \/ \E snsr \in FeedSensors : ReadClear(snsr)
    \/ \E snsr \in FeedSensors : ReadReturn(snsr)

SpecFeedRace == InitFeedRace /\ [][NextFeedRace]_vars

\* the value stored for the sensor has been returned by a read
StoredWasRead(snsr) ==
    \E i \in 1..Len(ReadsOf(snsr).got) :
       /\ reads[snsr].got[i].exc = "none"
       /\ reads[snsr].got[i].data = feed.cur_data[snsr]

\* the unread flag of the sensor is stored and false
FlagCleared(snsr) ==
    /\ snsr \in DOMAIN feed.has_new_data
    /\ ~feed.has_new_data[snsr]

\* no call of add_data or read_data for the sensor stands between its
\* two statements
AtRest(snsr) ==
    /\ ~Running(snsr)
    /\ ~(pc.at = "add_data" /\ pc.items[1] = snsr)

\* C39 as claimed: in every state of every interleaving, when the unread
\* flag of a sensor is false the value stored for it has been returned
\* by a read
C39_ClearedFlagMeansRead ==
    \A s \in FeedSensors : FlagCleared(s) => StoredWasRead(s)

\* C39: in every state of every interleaving in which no call for the
\* sensor stands between its two statements, when the unread flag of
\* the sensor is false the value stored for it has been returned by a
\* read: no published sample is left unread with its flag cleared
C39_ClearedFlagMeansReadAtRest ==
    \A s \in FeedSensors : (AtRest(s) /\ FlagCleared(s)) => StoredWasRead(s)

\* a read of W stored the flag, the second sample was published, and the
\* read returned it with the flag set; a second read returned it again
\* and left the flag false
C39_Witness ==
    /\ AtRest("W") /\ FlagCleared("W")
    /\ feed.cur_data["W"][1] = 2
    /\ Len(reads["W"].got) = 2
    /\ reads["W"].got[1].unread
    /\ reads["W"].got[1].data = feed.cur_data["W"]
    /\ reads["W"].got[2].data = feed.cur_data["W"]
=============================================================================
